---------------------------- MODULE Spec2Model ----------------------------
(***************************************************************************)
(* Model of the carrier-abstraction gateway tournevent/logistic.           *)
(*                                                                         *)
(* Spec      the shipper Registry (pkg/shipper/registry.go): Register and  *)
(*           the two quote fan-outs, one goroutine per carrier, an         *)
(*           errgroup with a derived context and a mutex around the        *)
(*           shared result and error slices.                               *)
(* SpecReg   the Registry as a map: Register and the four read             *)
(*           operations, against the log of Register calls.                *)
(* SpecIds   the adapters' response conversions and the id -> carrier      *)
(*           resolution of internal/graphql/helpers.go.                    *)
(* SpecErr   ShipperError, errors.Is and IsRetryable                       *)
(*           (pkg/shipper/errors.go).                                      *)
(* SpecAdapter  what the three adapters return: errors, labels and the     *)
(*           expiry of quotes.                                             *)
(* SpecPoll, SpecPollFair  the polling loops of freightcom's HTTP          *)
(*           transport, without and with fairness of the loop's steps.     *)
(* SpecSOAP  the response parsers of purolator's SOAP transport.           *)
(* SpecHelpers  the input conversions of internal/graphql/helpers.go.      *)
(* SpecLock  the goroutines inside the Registry's methods and its          *)
(*           reader/writer lock.                                           *)
(* SpecQuoteLockFair  a fan-out beside Register and Count, with the        *)
(*           registry's lock taken by r.All() and r.Get(name).             *)
(***************************************************************************)
EXTENDS Naturals, Sequences, FiniteSets, TLC

VARIABLES
    shippers,     \* Registry.shippers: map from carrier name to Shipper
    pc,           \* position of the fan-out call in flight
    op,           \* which exported fan-out was called
    carriers,     \* the carriers argument of GetQuotesFromCarriers
    snapshot,     \* GetAllQuotes' local "shippers" (the result of r.All())
    tasks,        \* the goroutines handed to g.Go, in launch order
    results,      \* the fan-out's local results slice
    errs,         \* the fan-out's local errs slice
    mu,           \* the fan-out's mutex: 0 free, else the task holding it
    parentDone,   \* the caller's context has been cancelled
    groupDone,    \* the errgroup's derived context has been cancelled
    regLog,       \* history: the Shippers passed to Register, in order
    lastRead,     \* what the last Get/All/Names/Count returned
    idCall,       \* the last id an adapter issued or the resolver looked at
    isCall,       \* the last errors.Is comparison and its answer
    fnCall,       \* the last call of another function: its input and result
    poll,         \* a submit-then-poll call of the freightcom HTTP transport
    rw            \* Registry.mu and the goroutines calling the registry

vars == <<shippers, pc, op, carriers, snapshot, tasks, results, errs, mu,
          parentDone, groupDone, regLog, lastRead, idCall, isCall, fnCall, poll, rw>>

fanoutVars == <<pc, op, carriers, snapshot, tasks, results, errs, mu,
                parentDone, groupDone>>

registryVars == <<shippers, regLog, lastRead>>

callVars == <<idCall, isCall, fnCall>>

procVars == <<poll, rw>>

-----------------------------------------------------------------------------
(* Bounds *)

\* implementations that can be registered under one carrier name
MaxImpl == 2
\* longest carriers argument of GetQuotesFromCarriers
MaxList == 2
\* longest history of Register calls followed in SpecReg
MaxRegs == 3

-----------------------------------------------------------------------------
(* Shippers *)

CarrierNames == {"freightcom", "canadapost", "purolator"}

\* A Shipper value: an implementation object and the name its Name() returns.
Shippers == [name : CarrierNames, id : 1..MaxImpl]

Name(s) == s.name

\* The shippers the fan-outs run over: one implementation per carrier, as
\* main registers them.
Adapters == {s \in Shippers : s.id = 1}

NoShipper == [name |-> "", id |-> 0]

-----------------------------------------------------------------------------
(* Errors, as far as the registry builds them *)

\* the nil error
NilError == [kind |-> "nil", text |-> "", wraps |-> "", carrier |-> ""]

\* errors.New("carrier not found")
ErrCarrierNotFound == [kind |-> "sentinel", text |-> "carrier not found", wraps |-> "", carrier |-> ""]

\* fmt.Errorf("%w: %s", ErrCarrierNotFound, name)
GetError(name) == [kind |-> "wrapped", text |-> name, wraps |-> "carrier not found", carrier |-> ""]

\* fmt.Errorf("%s: %w", name, err), err the carrier's own error
Annotate(name, cause) == [kind |-> "annotated", text |-> "", wraps |-> cause, carrier |-> name]

\* errors.Is(e, shipper.ErrCarrierNotFound)
IsCarrierNotFound(e) == e = ErrCarrierNotFound \/ e.wraps = "carrier not found"

-----------------------------------------------------------------------------
(* Registry: the map operations *)

\* mutant: an entry that exists is kept
RegisterMap_KeepFirst(m, s) == [n \in (DOMAIN m) \cup {Name(s)} |-> IF n \in DOMAIN m THEN m[n] ELSE s]

\* r.shippers[s.Name()] = s
RegisterMap(m, s) == [n \in (DOMAIN m) \cup {Name(s)} |-> IF n = Name(s) THEN s ELSE m[n]]

\* Get: the shipper and a nil error, or nil and the wrapped sentinel
Get(m, name) ==
    IF name \in DOMAIN m
    THEN [s |-> m[name], err |-> NilError]
    ELSE [s |-> NoShipper, err |-> GetError(name)]

\* the sequences without repetition that enumerate the set S
Orders(S) == {q \in [1..Cardinality(S) -> S] : \A i, j \in 1..Cardinality(S) : q[i] = q[j] => i = j}

\* All: the map's values, in the order the map iteration yields them
All(m) == Orders({m[n] : n \in DOMAIN m})

\* The slice GetAllQuotes ranges over.  Its order is the map's iteration
\* order, which Go leaves unspecified; the loop only starts one goroutine per
\* element, so nothing observes the order and one enumeration stands for all.
Snapshot(m) == CHOOSE q \in All(m) : TRUE

\* Names: the map's keys, in the order the map iteration yields them
Names(m) == Orders(DOMAIN m)

\* Count
Count(m) == Cardinality(DOMAIN m)

-----------------------------------------------------------------------------
(* The fan-outs: GetAllQuotes and GetQuotesFromCarriers *)

\* A goroutine handed to g.Go.  Starting a goroutine changes nothing another
\* goroutine can see, so the "for ... g.Go(func)" loop is one step with the
\* call: every task starts out spawned, in the order the loop ranged.
NewTask(name, s) == [pc |-> "spawned", name |-> name, s |-> s, out |-> "none"]

\* the context the tasks run under: errgroup.WithContext(ctx)
CtxDone == parentDone \/ groupDone

\* mutant: a failed GetQuote is returned to the errgroup as the task's error
TaskReturnValue_Err(out) == IF out = "ok" THEN "nil" ELSE "err"

\* the value a task's function returns to the errgroup, whatever its outcome
TaskReturnValue(out) == "nil"

\* errgroup: the first non-nil return of a task cancels the derived context
GroupAfter(ret) == groupDone \/ ret # "nil"

\* the QuoteResponse of shipper s
Response(s) == [carrier |-> Name(s), id |-> s.id]

\* the error a failing GetQuote returns
Cause(out) == IF out = "ctx" THEN "context canceled" ELSE "MOCK_ERROR"

\* the outcomes a call of GetQuote can have: a response, the carrier's error,
\* or the context's error when the context is done and the implementation
\* looks at it
Outcomes(s) == {"ok", "err"} \cup (IF CtxDone THEN {"ctx"} ELSE {})

\* mutant: the wait also ends when the context is done
WaitOver_OrCancelled == (\A i \in DOMAIN tasks : tasks[i].pc = "done") \/ CtxDone

\* g.Wait(): every function passed to g.Go has returned
WaitOver == \A i \in DOMAIN tasks : tasks[i].pc = "done"

\* mutant: no error for an empty registry
NoCarriers_Nil == [results |-> <<>>, errs |-> <<>>]

\* what GetAllQuotes returns when no carrier is registered
NoCarriers == [results |-> <<>>, errs |-> <<ErrCarrierNotFound>>]

\* GetAllQuotes lines 73-82, with "all" the slice r.All() returned
EnterGetAllQuotes(all) ==
    /\ snapshot' = all
    /\ IF Len(all) = 0
       THEN /\ pc' = "returned"
            /\ results' = NoCarriers.results
            /\ errs' = NoCarriers.errs
            /\ tasks' = <<>>
       ELSE /\ pc' = "wait"
            /\ results' = <<>>
            /\ errs' = <<>>
            /\ tasks' = [i \in 1..Len(all) |-> NewTask(Name(all[i]), all[i])]
    /\ mu' = 0
    /\ parentDone' = FALSE
    /\ groupDone' = FALSE

\* mutant: the empty list is not special
Delegates_Never(list) == FALSE

\* GetQuotesFromCarriers line 105: an empty list means every carrier
Delegates(list) == Len(list) = 0

CallGetAllQuotes ==
    /\ pc = "idle"
    /\ op' = "GetAllQuotes"
    /\ carriers' = <<>>
    /\ EnterGetAllQuotes(Snapshot(shippers))
    /\ UNCHANGED <<shippers, regLog, lastRead, callVars, procVars>>

CallGetQuotesFromCarriers(list) ==
    /\ pc = "idle"
    /\ op' = "GetQuotesFromCarriers"
    /\ carriers' = list
    /\ IF Delegates(list)
       THEN EnterGetAllQuotes(Snapshot(shippers))
       ELSE /\ pc' = "wait"
            /\ snapshot' = <<>>
            /\ results' = <<>>
            /\ errs' = <<>>
            /\ tasks' = [i \in 1..Len(list) |-> NewTask(list[i], NoShipper)]
            /\ mu' = 0
            /\ parentDone' = FALSE
            /\ groupDone' = FALSE
    /\ UNCHANGED <<shippers, regLog, lastRead, callVars, procVars>>

\* the tasks come from the carriers argument, not from the registered shippers
InOrder == op = "GetQuotesFromCarriers" /\ ~Delegates(carriers)

\* a GetAllQuotes task calls s.GetQuote(ctx, req)
TaskGetQuote(i) ==
    /\ i \in DOMAIN tasks
    /\ tasks[i].pc = "spawned"
    /\ tasks[i].s # NoShipper
    /\ tasks' = [tasks EXCEPT ![i].pc = "quoting"]
    /\ UNCHANGED <<shippers, pc, op, carriers, snapshot, results, errs, mu, parentDone, groupDone, regLog, lastRead, callVars, procVars>>

\* a GetQuotesFromCarriers task looks its carrier up (r.Get) and, when it is
\* registered, calls its GetQuote
TaskGet(i) ==
    /\ i \in DOMAIN tasks
    /\ tasks[i].pc = "spawned"
    /\ tasks[i].s = NoShipper
    /\ LET g == Get(shippers, tasks[i].name) IN
       tasks' = IF g.err = NilError
                THEN [tasks EXCEPT ![i].pc = "quoting", ![i].s = g.s]
                ELSE [tasks EXCEPT ![i].pc = "notfound"]
    /\ UNCHANGED <<shippers, pc, op, carriers, snapshot, results, errs, mu, parentDone, groupDone, regLog, lastRead, callVars, procVars>>

\* the carrier's GetQuote returns
GetQuoteReturns(i) ==
    /\ i \in DOMAIN tasks
    /\ tasks[i].pc = "quoting"
    /\ \E out \in Outcomes(tasks[i].s) :
          tasks' = [tasks EXCEPT ![i].pc = "got", ![i].out = out]
    /\ UNCHANGED <<shippers, pc, op, carriers, snapshot, results, errs, mu, parentDone, groupDone, regLog, lastRead, callVars, procVars>>

\* mutant: mu.Lock() returns whether or not a task holds the mutex
Unlocked_Always == TRUE

\* sync.Mutex: Lock returns when no task holds the mutex
Unlocked == mu = 0

\* mu.Lock()
TaskLock(i) ==
    /\ i \in DOMAIN tasks
    /\ tasks[i].pc \in {"got", "notfound"}
    /\ Unlocked
    /\ mu' = i
    /\ tasks' = [tasks EXCEPT ![i].pc = IF @ = "got" THEN "locked" ELSE "lockednf"]
    /\ UNCHANGED <<shippers, pc, op, carriers, snapshot, results, errs, parentDone, groupDone, regLog, lastRead, callVars, procVars>>

\* the name a carrier's error is prefixed with: s.Name() in GetAllQuotes,
\* the requested name in GetQuotesFromCarriers
ErrorPrefix(t) == IF InOrder THEN t.name ELSE Name(t.s)

\* mutant: the error branch does not return, and the response is appended too
ResultsAfter_FallThrough(t) ==
    IF t.pc = "locked" THEN Append(results, Response(t.s)) ELSE results

\* the results slice after task t's critical section
ResultsAfter(t) ==
    IF t.pc = "locked" /\ t.out = "ok" THEN Append(results, Response(t.s)) ELSE results

\* mutant: a name that is not registered is skipped without an error
ErrsAfter_SkipNotFound(t) ==
    IF t.pc = "lockednf" THEN errs
    ELSE IF t.out # "ok" THEN Append(errs, Annotate(ErrorPrefix(t), Cause(t.out)))
    ELSE errs

\* the errs slice after task t's critical section
ErrsAfter(t) ==
    IF t.pc = "lockednf" THEN Append(errs, GetError(t.name))
    ELSE IF t.out # "ok" THEN Append(errs, Annotate(ErrorPrefix(t), Cause(t.out)))
    ELSE errs

\* the append under the mutex, mu.Unlock() and the task's return
TaskAppend(i) ==
    /\ i \in DOMAIN tasks
    /\ tasks[i].pc \in {"locked", "lockednf"}
    /\ mu = i
    /\ results' = ResultsAfter(tasks[i])
    /\ errs' = ErrsAfter(tasks[i])
    /\ groupDone' = GroupAfter(TaskReturnValue(tasks[i].out))
    /\ mu' = 0
    /\ tasks' = [tasks EXCEPT ![i].pc = "done"]
    /\ UNCHANGED <<shippers, pc, op, carriers, snapshot, parentDone, regLog, lastRead, callVars, procVars>>

\* g.Wait() returns, and with it the fan-out
Wait ==
    /\ pc = "wait"
    /\ WaitOver
    /\ pc' = "returned"
    /\ groupDone' = TRUE
    /\ UNCHANGED <<shippers, op, carriers, snapshot, tasks, results, errs, mu, parentDone, regLog, lastRead, callVars, procVars>>

\* the caller cancels the context it passed
CancelContext ==
    /\ pc = "wait"
    /\ ~parentDone
    /\ parentDone' = TRUE
    /\ UNCHANGED <<shippers, pc, op, carriers, snapshot, tasks, results, errs, mu, groupDone, regLog, lastRead, callVars, procVars>>

\* the caller has taken the returned slices; the next call can start
Done ==
    /\ pc = "returned"
    /\ pc' = "idle"
    /\ op' = "none"
    /\ carriers' = <<>>
    /\ snapshot' = <<>>
    /\ tasks' = <<>>
    /\ results' = <<>>
    /\ errs' = <<>>
    /\ mu' = 0
    /\ parentDone' = FALSE
    /\ groupDone' = FALSE
    /\ UNCHANGED <<shippers, regLog, lastRead, callVars, procVars>>

\* Register, whenever a caller likes, also during a fan-out
Register(s) ==
    /\ shippers' = RegisterMap(shippers, s)
    /\ UNCHANGED <<fanoutVars, regLog, lastRead, callVars, procVars>>

NoRead == [op |-> "none", arg |-> "", val |-> <<>>]

NoIdCall == [fn |-> "none", carrier |-> "", id |-> "", owner |-> ""]

NoIsCall == [e1 |-> NilError, e2 |-> NilError, is |-> FALSE]

NoFnCall == [fn |-> "none"]

NoPoll == [pc |-> "idle"]

\* how many goroutines call the registry concurrently
MaxCallers == 3

Callers == 1..MaxCallers

\* Registry.mu unlocked, and no goroutine in a method of the registry
NoCallers == [mu |-> [writer |-> 0, readers |-> {}],
              at |-> [g \in Callers |-> "idle"],
              fn |-> [g \in Callers |-> "none"],
              arg |-> [g \in Callers |-> ""]]

Lists(n) == UNION {[1..k -> CarrierNames] : k \in 0..n}

Init ==
    /\ shippers = <<>>
    /\ pc = "idle"
    /\ op = "none"
    /\ carriers = <<>>
    /\ snapshot = <<>>
    /\ tasks = <<>>
    /\ results = <<>>
    /\ errs = <<>>
    /\ mu = 0
    /\ parentDone = FALSE
    /\ groupDone = FALSE
    /\ regLog = <<>>
    /\ lastRead = NoRead
    /\ idCall = NoIdCall
    /\ isCall = NoIsCall
    /\ fnCall = NoFnCall
    /\ poll = NoPoll
    /\ rw = NoCallers

Next ==
    \/ \E s \in Adapters : Register(s)
    \/ CallGetAllQuotes
    \/ \E list \in Lists(MaxList) : CallGetQuotesFromCarriers(list)
    \/ \E i \in 1..Len(tasks) : TaskGetQuote(i)
    \/ \E i \in 1..Len(tasks) : TaskGet(i)
    \/ \E i \in 1..Len(tasks) : GetQuoteReturns(i)
    \/ \E i \in 1..Len(tasks) : TaskLock(i)
    \/ \E i \in 1..Len(tasks) : TaskAppend(i)
    \/ Wait
    \/ CancelContext
    \/ Done

Spec == Init /\ [][Next]_vars

-----------------------------------------------------------------------------
(* The registry's operations called one after another, with the history of *)
(* the Register calls                                                      *)

RegisterLogged(s) ==
    /\ Len(regLog) < MaxRegs
    /\ shippers' = RegisterMap(shippers, s)
    /\ regLog' = Append(regLog, s)
    /\ lastRead' = NoRead
    /\ UNCHANGED <<fanoutVars, callVars, procVars>>

CallGet(name) ==
    /\ lastRead' = [op |-> "Get", arg |-> name, val |-> Get(shippers, name)]
    /\ UNCHANGED <<shippers, regLog, fanoutVars, callVars, procVars>>

CallAll ==
    /\ \E q \in All(shippers) : lastRead' = [op |-> "All", arg |-> "", val |-> q]
    /\ UNCHANGED <<shippers, regLog, fanoutVars, callVars, procVars>>

CallNames ==
    /\ \E q \in Names(shippers) : lastRead' = [op |-> "Names", arg |-> "", val |-> q]
    /\ UNCHANGED <<shippers, regLog, fanoutVars, callVars, procVars>>

CallCount ==
    /\ lastRead' = [op |-> "Count", arg |-> "", val |-> Count(shippers)]
    /\ UNCHANGED <<shippers, regLog, fanoutVars, callVars, procVars>>

NextReg ==
    \/ \E s \in Shippers : RegisterLogged(s)
    \/ \E name \in CarrierNames : CallGet(name)
    \/ CallAll
    \/ CallNames
    \/ CallCount

SpecReg == Init /\ [][NextReg]_vars

-----------------------------------------------------------------------------
(* Ids: what the adapters put in RateID and OrderID, and how the GraphQL    *)
(* layer finds the carrier of an id                                        *)

\* Strings are sequences of characters: Len, \o and SubSeq apply to them.

\* mutant: strings.Contains in place of strings.HasPrefix
HasPrefix_Contains(s, prefix) ==
    \E k \in 1..Len(s) : k + Len(prefix) - 1 <= Len(s) /\ SubSeq(s, k, k + Len(prefix) - 1) = prefix

\* strings.HasPrefix(s, prefix)
HasPrefix(s, prefix) == Len(s) >= Len(prefix) /\ SubSeq(s, 1, Len(prefix)) = prefix

carrierFromRateID(rateID) ==
    IF HasPrefix(rateID, "fc-") THEN "freightcom"
    ELSE IF HasPrefix(rateID, "cp-") THEN "canadapost"
    ELSE IF HasPrefix(rateID, "puro-") THEN "purolator"
    ELSE "unknown"

carrierFromOrderID(orderID) ==
    IF HasPrefix(orderID, "fc-") THEN "freightcom"
    ELSE IF HasPrefix(orderID, "cp-") THEN "canadapost"
    ELSE IF HasPrefix(orderID, "puro-") THEN "purolator"
    ELSE "unknown"

\* time.Now().Format("20060102150405")
Timestamps == {"20260105093000", "20261231235959"}

\* the service codes a rate of the canadapost / purolator transport carries
ServiceCodes == {"", "DOM.XP", "PurolatorExpress"}

\* the ids a transport answers with: those of the mock transports
\* ("rate-", "fc-ship-", "cp-ship-", "puro-ship-" and eight characters of a
\* uuid) and what a carrier's API may send (a number, a PIN, nothing)
TransportIDs == {"rate-3f2a9c1e", "fc-ship-3f2a9c1e", "cp-ship-3f2a9c1e", "puro-ship-3f2a9c1e",
                 "329000000042", "7731", ""}

\* canadapost and purolator: generateRateID(serviceCode)
generateRateID(tag, serviceCode, now) == tag \o serviceCode \o "-" \o now

\* freightcom ratesResponseToShipper: RateID: r.ID
FreightcomRateID(r) == r

\* shipmentResponseToShipper: OrderID: resp.ID (freightcom), resp.ShipmentID
\* (canadapost), resp.ShipmentPIN (purolator)
OrderIDOf(resp) == resp

\* An adapter returned a rate option or an order: the id in it, and the
\* carrier the GraphQL layer takes the id to belong to.  The calls share no
\* state, so a behaviour follows one of them.
Issued(fn, carrier, id) ==
    /\ idCall = NoIdCall
    /\ idCall' = [fn |-> fn, carrier |-> carrier, id |-> id,
                  owner |-> IF fn = "GetQuote" THEN carrierFromRateID(id) ELSE carrierFromOrderID(id)]
    /\ UNCHANGED <<fanoutVars, registryVars, isCall, fnCall, procVars>>

FreightcomGetQuote(r) == Issued("GetQuote", "freightcom", FreightcomRateID(r))

CanadaPostGetQuote(serviceCode, now) == Issued("GetQuote", "canadapost", generateRateID("cp-", serviceCode, now))

PurolatorGetQuote(serviceCode, now) == Issued("GetQuote", "purolator", generateRateID("puro-", serviceCode, now))

CreateOrder(carrier, resp) == Issued("CreateOrder", carrier, OrderIDOf(resp))

\* the pieces the ids given to the resolver are put together from
Chunks == {"fc-", "cp-", "puro-", "fc", "puro", "-", "x", "FC-"}

\* how many pieces an id is put together from, at most
MaxChunks == 3

RECURSIVE Ids(_)
Ids(n) == IF n = 0 THEN {""} ELSE Ids(n - 1) \cup {c \o id : c \in Chunks, id \in Ids(n - 1)}

ResolveRateID(id) ==
    /\ idCall = NoIdCall
    /\ idCall' = [fn |-> "carrierFromRateID", carrier |-> "", id |-> id, owner |-> carrierFromRateID(id)]
    /\ UNCHANGED <<fanoutVars, registryVars, isCall, fnCall, procVars>>

ResolveOrderID(id) ==
    /\ idCall = NoIdCall
    /\ idCall' = [fn |-> "carrierFromOrderID", carrier |-> "", id |-> id, owner |-> carrierFromOrderID(id)]
    /\ UNCHANGED <<fanoutVars, registryVars, isCall, fnCall, procVars>>

NextIds ==
    \/ \E r \in TransportIDs : FreightcomGetQuote(r)
    \/ \E c \in ServiceCodes, now \in Timestamps : CanadaPostGetQuote(c, now)
    \/ \E c \in ServiceCodes, now \in Timestamps : PurolatorGetQuote(c, now)
    \/ \E carrier \in CarrierNames, resp \in TransportIDs : CreateOrder(carrier, resp)
    \/ \E id \in Ids(MaxChunks) : ResolveRateID(id)
    \/ \E id \in Ids(MaxChunks) : ResolveOrderID(id)

SpecIds == Init /\ [][NextIds]_vars

-----------------------------------------------------------------------------
(* ShipperError and errors.Is *)

\* errors.New("service unavailable")
ErrServiceUnavailable == [kind |-> "sentinel", text |-> "service unavailable", wraps |-> "", carrier |-> ""]

NewShipperError(carrier, code, message) ==
    [kind |-> "ShipperError", Carrier |-> carrier, Code |-> code, Message |-> message,
     StatusCode |-> 0, Retryable |-> FALSE, Cause |-> NilError]

WithCause(e, err) == [e EXCEPT !.Cause = err]

WithStatusCode(e, code) == [e EXCEPT !.StatusCode = code]

WithRetryable(e, retryable) == [e EXCEPT !.Retryable = retryable]

\* (*ShipperError).Unwrap
Unwrap(e) == e.Cause

\* mutant: the carrier is compared as well
Is_CodeAndCarrier(e, target) ==
    IF target.kind # "ShipperError" THEN FALSE
    ELSE e.Code = target.Code /\ e.Carrier = target.Carrier

\* (*ShipperError).Is
Is(e, target) ==
    IF target.kind # "ShipperError" THEN FALSE
    ELSE e.Code = target.Code

\* fmt.Errorf("%s: %w", text, err): an error that unwraps to err
WrapError(text, err) == [kind |-> "wrapError", text |-> text, err |-> err]

\* what the next link of an error's chain is: the Cause of a ShipperError,
\* the wrapped error of a fmt.Errorf value, nil for an error without Unwrap
UnwrapOf(err) ==
    IF err.kind = "ShipperError" THEN Unwrap(err)
    ELSE IF err.kind = "wrapError" THEN err.err
    ELSE NilError

\* errors.Is(err, target), as the standard library walks the chain of err:
\* the error itself, its Is method when it has one, then what it unwraps to.
\* Of the errors here only a ShipperError has an Is method.
RECURSIVE ErrorsIs(_, _)
ErrorsIs(err, target) ==
    IF err = NilError \/ target = NilError THEN err = target
    ELSE IF err = target THEN TRUE
    ELSE IF err.kind = "ShipperError" /\ Is(err, target) THEN TRUE
    ELSE IF UnwrapOf(err) = NilError THEN FALSE
    ELSE ErrorsIs(UnwrapOf(err), target)

\* errors.As(err, &shipperErr): the first *ShipperError of the chain of err,
\* nil when there is none
RECURSIVE ErrorsAs(_)
ErrorsAs(err) ==
    IF err = NilError THEN NilError
    ELSE IF err.kind = "ShipperError" THEN err
    ELSE ErrorsAs(UnwrapOf(err))

\* errors.New("rate limit exceeded")
ErrRateLimitExceeded == [kind |-> "sentinel", text |-> "rate limit exceeded", wraps |-> "", carrier |-> ""]

\* errors.New("invalid address")
ErrInvalidAddress == [kind |-> "sentinel", text |-> "invalid address", wraps |-> "", carrier |-> ""]

\* mutant: the retryable sentinels are looked for first
IsRetryable_SentinelFirst(err) ==
    IF ErrorsIs(err, ErrServiceUnavailable) \/ ErrorsIs(err, ErrRateLimitExceeded) THEN TRUE
    ELSE IF ErrorsAs(err) # NilError THEN ErrorsAs(err).Retryable
    ELSE FALSE

IsRetryable(err) ==
    IF ErrorsAs(err) # NilError THEN ErrorsAs(err).Retryable
    ELSE ErrorsIs(err, ErrServiceUnavailable) \/ ErrorsIs(err, ErrRateLimitExceeded)

Codes == {"INVALID_ADDRESS", "API_ERROR"}

ErrCarriers == {"freightcom", "canadapost"}

Messages == {"Invalid postal code", "Different message"}

\* the ShipperErrors a cause chain holds below its first error, at most
MaxChain == 1

\* the causes with at most n ShipperErrors, one wrapping the next
RECURSIVE Causes(_)
Causes(n) ==
    IF n = 0 THEN {NilError, ErrServiceUnavailable}
    ELSE Causes(n - 1) \cup
         {WithCause(NewShipperError(c, k, "API call failed"), x) : c \in ErrCarriers, k \in Codes, x \in Causes(n - 1)}

\* the ShipperErrors built over the given causes
ShipperErrors(causes) ==
    {WithRetryable(WithStatusCode(WithCause(NewShipperError(c, k, m), x), s), r) :
        c \in ErrCarriers, k \in Codes, m \in Messages, x \in causes, s \in {0, 401}, r \in BOOLEAN}

\* errors.Is on two ShipperErrors
CallErrorsIs(e1, e2) ==
    /\ isCall' = [e1 |-> e1, e2 |-> e2, is |-> ErrorsIs(e1, e2)]
    /\ UNCHANGED <<fanoutVars, registryVars, idCall, fnCall, procVars>>

\* the sentinels an error chain ends in
Sentinels == {ErrServiceUnavailable, ErrRateLimitExceeded, ErrInvalidAddress, ErrCarrierNotFound}

\* how many times an error is wrapped with fmt.Errorf, at most
MaxWraps == 2

\* the errors given to IsRetryable: nil, a sentinel or a ShipperError whose
\* cause is nil, a sentinel or another ShipperError, wrapped up to n times
RECURSIVE Errors(_)
Errors(n) ==
    IF n = 0
    THEN {NilError} \cup Sentinels \cup
         {WithRetryable(WithCause(NewShipperError("freightcom", k, "API call failed"), x), r) :
             k \in Codes, r \in BOOLEAN,
             x \in {NilError} \cup Sentinels \cup
                   {WithRetryable(NewShipperError("canadapost", "API_ERROR", "inner"), ri) : ri \in BOOLEAN}}
    ELSE Errors(n - 1) \cup {WrapError("purolator", e) : e \in Errors(n - 1) \ {NilError}}

CallIsRetryable(err) ==
    /\ fnCall' = [fn |-> "IsRetryable", err |-> err, val |-> IsRetryable(err)]
    /\ UNCHANGED <<fanoutVars, registryVars, idCall, isCall, procVars>>

\* The calls share no state, so a behaviour follows one of them.
NextErr ==
    /\ isCall = NoIsCall
    /\ fnCall = NoFnCall
    /\ \/ \E e1 \in ShipperErrors(Causes(MaxChain)), e2 \in ShipperErrors(Causes(0)) : CallErrorsIs(e1, e2)
       \/ \E err \in Errors(MaxWraps) : CallIsRetryable(err)

SpecErr == Init /\ [][NextErr]_vars

-----------------------------------------------------------------------------
(* The adapters' operations over their transports *)

Operations == {"GetQuote", "CreateOrder", "GetLabel", "CancelOrder"}

\* the adapter package's APIError
APIError(carrier, code) == [kind |-> "APIError", pkg |-> carrier, Code |-> code]

\* an error of the HTTP client under the transport
NetError == [kind |-> "netError", text |-> "connection refused"]

\* the errors a transport call returns: the mock's simulated error, the error
\* parsed from a non-success answer, a failed decode, the HTTP client's own
TransportErrors(carrier) ==
    {APIError(carrier, "MOCK_ERROR"), APIError(carrier, "HTTP_500"), APIError(carrier, "TIMEOUT"),
     WrapError("failed to decode response", NetError), NetError}

\* what an operation of an adapter returns when its transport call returned
\* err: "return nil, err"
ReturnedError(carrier, err) == err

\* an operation of an adapter whose transport call fails
OperationFails(carrier, operation, err) ==
    /\ fnCall' = [fn |-> operation, carrier |-> carrier, ok |-> FALSE, err |-> ReturnedError(carrier, err)]
    /\ UNCHANGED <<fanoutVars, registryVars, idCall, isCall, procVars>>

\* freightcom mapLabelFormat
mapLabelFormat(format) ==
    IF format \in {"pdf", "PDF"} THEN "PDF"
    ELSE IF format \in {"png", "PNG"} THEN "PNG"
    ELSE IF format \in {"zpl", "ZPL"} THEN "ZPL"
    ELSE "PDF"

\* the zero value of shipper.Label
NoLabel == [Format |-> "", Data |-> "", URL |-> ""]

\* freightcom HTTPAPIClient.GetLabel: the labels of the shipment that have
\* the requested format, all of them when no format is requested
HTTPGetLabel(labels, format) ==
    LET HasFormat(l) == l.Format = format
    IN  IF format # "" THEN SelectSeq(labels, HasFormat) ELSE labels

\* freightcom labelResponseToShipper: the first label of the response, the
\* zero Label when the response has none
FreightcomLabel(labels) ==
    IF Len(labels) > 0
    THEN [Format |-> mapLabelFormat(labels[1].Format), Data |-> "", URL |-> labels[1].URL]
    ELSE NoLabel

\* the labels a freightcom shipment carries
LabelFormats == {"pdf", "zpl"}

LabelURLs == {"", "https://api.freightcom.com/shipment/7731/label"}

\* how many labels a shipment carries, at most
MaxLabels == 2

ShipmentLabels == UNION {[1..n -> [Format : LabelFormats, URL : LabelURLs]] : n \in 0..MaxLabels}

\* freightcom Client.GetLabel over the HTTP transport
FreightcomGetLabel(labels, requested) ==
    LET format == IF requested = "" THEN "pdf" ELSE requested
    IN  /\ fnCall' = [fn |-> "GetLabel", carrier |-> "freightcom", ok |-> TRUE, err |-> NilError,
                      requested |-> requested, payload |-> Len(labels),
                      label |-> FreightcomLabel(HTTPGetLabel(labels, format))]
        /\ UNCHANGED <<fanoutVars, registryVars, idCall, isCall, procVars>>

\* base64.StdEncoding.EncodeToString of n bytes, each the letter A
RECURSIVE EncodeToString(_)
EncodeToString(n) ==
    IF n = 0 THEN ""
    ELSE IF n = 1 THEN "QQ=="
    ELSE IF n = 2 THEN "QUE="
    ELSE "QUFB" \o EncodeToString(n - 3)

\* how many bytes a label payload has, at most
MaxBytes == 4

\* canadapost and purolator labelResponseToShipper, the payload being n bytes
InlineLabel(format, n) ==
    [Format |-> IF format = "application/zpl" THEN "ZPL" ELSE "PDF",
     Data |-> IF n > 0 THEN EncodeToString(n) ELSE "",
     URL |-> ""]

\* canadapost / purolator Client.GetLabel
InlineGetLabel(carrier, format, n) ==
    /\ fnCall' = [fn |-> "GetLabel", carrier |-> carrier, ok |-> TRUE, err |-> NilError,
                  requested |-> format, payload |-> n, label |-> InlineLabel(format, n)]
    /\ UNCHANGED <<fanoutVars, registryVars, idCall, isCall, procVars>>

\* the instants the model tells apart; 0 is the zero time.Time
Times == 0..3

\* how many rates a quote carries, at most
MaxRates == 2

\* freightcom: time.Parse(time.RFC3339, r.ExpiresAt), the zero time for a
\* string that does not parse (parsed already: 0 stands for such a string)
ParseExpiresAt(t) == t

\* freightcom ratesResponseToShipper: the quote expires when its first rate does
FreightcomQuoteExpiry(rates) == IF Len(rates) > 0 THEN rates[1] ELSE 0

\* freightcom Client.GetQuote, the transport's rates given by their expiries
FreightcomQuote(expiries) ==
    LET rates == [i \in DOMAIN expiries |-> ParseExpiresAt(expiries[i])]
    IN  /\ fnCall' = [fn |-> "GetQuote", carrier |-> "freightcom", ok |-> TRUE, err |-> NilError,
                      rates |-> rates, ExpiresAt |-> FreightcomQuoteExpiry(rates)]
        /\ UNCHANGED <<fanoutVars, registryVars, idCall, isCall, procVars>>

\* canadapost / purolator Client.GetQuote over n rates at the instant now:
\* every rate and the quote expire a fixed time after now
StampedQuote(carrier, n, now) ==
    /\ fnCall' = [fn |-> "GetQuote", carrier |-> carrier, ok |-> TRUE, err |-> NilError,
                  rates |-> [i \in 1..n |-> now + 1], ExpiresAt |-> now + 1]
    /\ UNCHANGED <<fanoutVars, registryVars, idCall, isCall, procVars>>

\* the operations of a carrier's MockAPIClient
MockOperations(carrier) ==
    {"GetRates", "CreateShipment", "GetLabel", "GetTracking"} \cup
    (IF carrier = "freightcom" THEN {"CancelShipment"} ELSE {"VoidShipment"})

\* what an override callback returns: a response of its own, or an error
CallbackResults == {[ok |-> TRUE, value |-> "custom", err |-> ""], [ok |-> FALSE, value |-> "", err |-> "CUSTOM_ERROR"]}

\* the canned response of an operation
Canned(operation) == [ok |-> TRUE, value |-> "canned " \o operation, err |-> ""]

\* a mock's fields: SimulateErrors, SimulateLatency (0: none), and the
\* operation's On... callback (set or nil, and what it returns when called)
Mocks == [SimulateErrors : BOOLEAN, SimulateLatency : 0..1, set : BOOLEAN, returns : CallbackResults]

\* an operation of a MockAPIClient: the latency, then SimulateErrors, then
\* the callback, then the canned response
MockResult(mock, operation) ==
    IF mock.SimulateErrors THEN [ok |-> FALSE, value |-> "", err |-> "MOCK_ERROR"]
    ELSE IF mock.set THEN mock.returns
    ELSE Canned(operation)

MockCall(carrier, operation, mock) ==
    /\ fnCall' = [fn |-> "MockAPIClient", carrier |-> carrier, operation |-> operation, mock |-> mock,
                  slept |-> mock.SimulateLatency, result |-> MockResult(mock, operation)]
    /\ UNCHANGED <<fanoutVars, registryVars, idCall, isCall, procVars>>

\* strings.ToUpper on one character of the postal codes below
ToUpper(c) ==
    CASE c = "a" -> "A" [] c = "b" -> "B" [] c = "k" -> "K" [] c = "m" -> "M" [] c = "v" -> "V"
      [] OTHER -> c

\* canadapost normalizePostalCode: upper case, then every " " removed
RECURSIVE normalizePostalCode(_)
normalizePostalCode(code) ==
    IF Len(code) = 0 THEN ""
    ELSE (IF SubSeq(code, 1, 1) = " " THEN "" ELSE ToUpper(SubSeq(code, 1, 1)))
         \o normalizePostalCode(SubSeq(code, 2, Len(code)))

PostalCodes == {"K1A 0B1", "k1a 0b1", " m5v1a1", "90210", ""}

DestinationCountries == {"CA", "", "US", "FR", "ca", "us"}

\* Client.GetQuote: the destination of the RatesRequest
RatesDestination(destination) ==
    IF destination.CountryCode = "" \/ destination.CountryCode = "CA"
    THEN [Domestic |-> <<[PostalCode |-> destination.PostalCode]>>, International |-> <<>>]
    ELSE [Domestic |-> <<>>, International |-> <<[CountryCode |-> destination.CountryCode]>>]

\* mutant: the United States are a country like the others
ScenarioDestination_NoUnitedStates(d) ==
    IF d.Domestic # <<>>
    THEN [Domestic |-> <<[PostalCode |-> normalizePostalCode(d.Domestic[1].PostalCode)]>>,
          UnitedStates |-> <<>>, International |-> <<>>]
    ELSE IF d.International # <<>>
    THEN [Domestic |-> <<>>, UnitedStates |-> <<>>,
          International |-> <<[CountryCode |-> d.International[1].CountryCode]>>]
    ELSE [Domestic |-> <<>>, UnitedStates |-> <<>>, International |-> <<>>]

\* HTTPAPIClient.GetRates: the destination of the mailing scenario sent
ScenarioDestination(d) ==
    IF d.Domestic # <<>>
    THEN [Domestic |-> <<[PostalCode |-> normalizePostalCode(d.Domestic[1].PostalCode)]>>,
          UnitedStates |-> <<>>, International |-> <<>>]
    ELSE IF d.International # <<>>
    THEN IF d.International[1].CountryCode = "US"
         THEN [Domestic |-> <<>>, UnitedStates |-> <<[ZipCode |-> d.International[1].CountryCode]>>,
               International |-> <<>>]
         ELSE [Domestic |-> <<>>, UnitedStates |-> <<>>,
               International |-> <<[CountryCode |-> d.International[1].CountryCode]>>]
    ELSE [Domestic |-> <<>>, UnitedStates |-> <<>>, International |-> <<>>]

\* canadapost GetQuote over the HTTP transport, up to the request sent
CanadaPostRatesRequest(origin, destination) ==
    /\ fnCall' = [fn |-> "canadapost.GetQuote", origin |-> origin, destination |-> destination,
                  sent |-> [OriginPostalCode |-> normalizePostalCode(origin),
                            Destination |-> ScenarioDestination(RatesDestination(destination))]]
    /\ UNCHANGED <<fanoutVars, registryVars, idCall, isCall, procVars>>

\* canadapost CreateOrder over the HTTP transport, up to the request sent
CanadaPostShipmentRequest(sender, recipient) ==
    /\ fnCall' = [fn |-> "canadapost.CreateOrder", sender |-> sender, recipient |-> recipient,
                  sent |-> [Sender |-> [PostalZipCode |-> normalizePostalCode(sender)],
                            Destination |-> [PostalZipCode |-> normalizePostalCode(recipient)]]]
    /\ UNCHANGED <<fanoutVars, registryVars, idCall, isCall, procVars>>

\* parseVoidResponse, for a body it accepts: the VoidResponse's Status
VoidStatus(ShipmentVoided) == IF ShipmentVoided THEN "voided" ELSE "failed"

\* purolator voidResponseToShipper: the Status of the CancelOrderResponse
voidResponseToShipper(resp) == [OrderID |-> resp.ShipmentPIN, Status |-> "cancelled"]

\* purolator CancelOrder when the carrier answered the void request without
\* Fault and without Errors
PurolatorCancelOrder(pin, ShipmentVoided) ==
    /\ LET resp == [ShipmentPIN |-> pin, Status |-> VoidStatus(ShipmentVoided)]
       IN  fnCall' = [fn |-> "purolator.CancelOrder", ShipmentVoided |-> ShipmentVoided,
                      void |-> resp, order |-> voidResponseToShipper(resp)]
    /\ UNCHANGED <<fanoutVars, registryVars, idCall, isCall, procVars>>

\* the loops of contains (purolator) and containsMiddle (canadapost)
Contains(s, substr) ==
    \E i \in 0..(Len(s) - Len(substr)) : SubSeq(s, i + 1, i + Len(substr)) = substr

\* the codes extractServiceCode looks for, in its order
KnownServiceCodes(carrier) ==
    IF carrier = "purolator"
    THEN <<"PurolatorGround", "PurolatorExpress", "PurolatorExpress9AM", "PurolatorExpress10:30AM">>
    ELSE <<"DOM.RP", "DOM.XP", "DOM.PC", "DOM.EP">>

\* the first of the codes that the rate id contains, else the first code;
\* canadapost looks only at ids longer than three characters
extractServiceCode(carrier, rateID) ==
    LET codes == KnownServiceCodes(carrier)
        found == {i \in DOMAIN codes : Contains(rateID, codes[i])}
    IN  IF found = {} \/ (carrier = "canadapost" /\ ~(Len(rateID) > 3)) THEN codes[1]
        ELSE codes[CHOOSE i \in found : \A j \in found : i <= j]

\* GetQuote issues a rate id for a quoted service; CreateOrder is called
\* with it and asks the carrier for the service it extracts
QuoteThenCreateOrder(carrier, serviceCode, now) ==
    /\ LET rateID == generateRateID(IF carrier = "purolator" THEN "puro-" ELSE "cp-", serviceCode, now)
       IN  fnCall' = [fn |-> "QuoteThenCreateOrder", carrier |-> carrier, quoted |-> serviceCode,
                      RateID |-> rateID, requested |-> extractServiceCode(carrier, rateID)]
    /\ UNCHANGED <<fanoutVars, registryVars, idCall, isCall, procVars>>

\* The calls share no state, so a behaviour follows one of them.
NextAdapter ==
    /\ fnCall = NoFnCall
    /\ \/ \E carrier \in CarrierNames, operation \in Operations : \E err \in TransportErrors(carrier) :
             OperationFails(carrier, operation, err)
       \/ \E labels \in ShipmentLabels, requested \in LabelFormats \cup {""} : FreightcomGetLabel(labels, requested)
       \/ \E carrier \in {"canadapost", "purolator"}, format \in {"application/pdf", "application/zpl"}, n \in 0..MaxBytes :
             InlineGetLabel(carrier, format, n)
       \/ \E expiries \in UNION {[1..n -> Times] : n \in 0..MaxRates} : FreightcomQuote(expiries)
       \/ \E carrier \in {"canadapost", "purolator"}, n \in 0..MaxRates, now \in Times : StampedQuote(carrier, n, now)
       \/ \E carrier \in CarrierNames, mock \in Mocks : \E operation \in MockOperations(carrier) :
             MockCall(carrier, operation, mock)
       \/ \E origin \in PostalCodes, destination \in [CountryCode : DestinationCountries, PostalCode : PostalCodes] :
             CanadaPostRatesRequest(origin, destination)
       \/ \E sender \in PostalCodes, recipient \in PostalCodes : CanadaPostShipmentRequest(sender, recipient)
       \/ \E pin \in {"329000000042", "7731"}, ShipmentVoided \in BOOLEAN : PurolatorCancelOrder(pin, ShipmentVoided)
       \/ \E carrier \in {"purolator", "canadapost"}, now \in Timestamps :
             \E i \in DOMAIN KnownServiceCodes(carrier) : QuoteThenCreateOrder(carrier, KnownServiceCodes(carrier)[i], now)

SpecAdapter == Init /\ [][NextAdapter]_vars

-----------------------------------------------------------------------------
(* The freightcom HTTP transport: submit, then poll until the answer is    *)
(* ready or the poll deadline has passed                                   *)

\* c.pollInterval and c.pollTimeout, in ticks of the clock
PollInterval == 1

PollTimeout == 2

\* how many different answers the carrier's status endpoint gives before it
\* repeats the last one for ever
MaxScript == 3

\* the statuses the carrier reports for a rate request and for a shipment
RateStatuses == {"pending", "complete", "error", "queued"}

ShipmentStatuses == {"pending", "processing", "booked", "failed", "queued"}

Scripts(statuses) == UNION {[1..n -> statuses] : n \in 1..MaxScript}

\* the k-th answer of the carrier
Answer(script, k) == script[IF k <= Len(script) THEN k ELSE Len(script)]

\* mutant: a pending answer is taken for the result
RatesOutcome_PendingIsResult(status) ==
    IF status \in {"complete", "pending"} THEN [pc |-> "done", ok |-> TRUE, err |-> ""]
    ELSE IF status = "error" THEN [pc |-> "done", ok |-> FALSE, err |-> "RATE_ERROR"]
    ELSE [pc |-> "done", ok |-> FALSE, err |-> "UNKNOWN_STATUS"]

\* pollRates: switch result.Status
RatesOutcome(status) ==
    IF status = "complete" THEN [pc |-> "done", ok |-> TRUE, err |-> ""]
    ELSE IF status = "error" THEN [pc |-> "done", ok |-> FALSE, err |-> "RATE_ERROR"]
    ELSE IF status = "pending" THEN [pc |-> "sleep", ok |-> FALSE, err |-> ""]
    ELSE [pc |-> "done", ok |-> FALSE, err |-> "UNKNOWN_STATUS"]

\* pollShipment: switch result.Status
ShipmentOutcome(status) ==
    IF status \in {"booked", "confirmed", "complete"} THEN [pc |-> "done", ok |-> TRUE, err |-> ""]
    ELSE IF status \in {"error", "failed"} THEN [pc |-> "done", ok |-> FALSE, err |-> "SHIPMENT_ERROR"]
    ELSE IF status \in {"pending", "processing"} THEN [pc |-> "sleep", ok |-> FALSE, err |-> ""]
    ELSE [pc |-> "done", ok |-> TRUE, err |-> ""]

\* freightcom mapStatus
mapStatus(status) ==
    IF status \in {"pending", "processing"} THEN "pending"
    ELSE IF status = "quoted" THEN "quoted"
    ELSE IF status \in {"confirmed", "booked", "complete"} THEN "confirmed"
    ELSE IF status = "assigned" THEN "assigned"
    ELSE IF status = "picked_up" THEN "picked_up"
    ELSE IF status = "in_transit" THEN "in_transit"
    ELSE IF status = "out_for_delivery" THEN "out_for_delivery"
    ELSE IF status = "delivered" THEN "delivered"
    ELSE IF status = "cancelled" THEN "cancelled"
    ELSE IF status \in {"exception", "error", "failed"} THEN "exception"
    ELSE "pending"

\* a call that entered its poll loop at the instant now
Polling(call, script, asked, status, now) ==
    [pc |-> "top", op |-> call, script |-> script, asked |-> asked, polls |-> 0,
     now |-> now, deadline |-> now + PollTimeout, cancelled |-> FALSE,
     status |-> status, ok |-> FALSE, err |-> ""]

\* GetRates: the submit is accepted and the call goes on to pollRates
SubmitRates(script) ==
    /\ poll.pc = "idle"
    /\ poll' = Polling("GetRates", script, 0, "", 0)
    /\ UNCHANGED <<fanoutVars, registryVars, callVars, rw>>

\* CreateShipment: the submit is answered with the shipment in its first
\* status; the call goes on to pollShipment when that is pending or
\* processing and returns the shipment as it is otherwise
SubmitShipment(script) ==
    /\ poll.pc = "idle"
    /\ poll' = IF Answer(script, 1) \in {"pending", "processing"}
               THEN Polling("CreateShipment", script, 1, Answer(script, 1), 0)
               ELSE [Polling("CreateShipment", script, 1, Answer(script, 1), 0) EXCEPT !.pc = "done", !.ok = TRUE]
    /\ UNCHANGED <<fanoutVars, registryVars, callVars, rw>>

\* mutant: the deadline is looked at before the context
LoopTop_DeadlineFirst ==
    /\ poll.pc = "top"
    /\ poll' = IF poll.now > poll.deadline THEN [poll EXCEPT !.pc = "done", !.err = "TIMEOUT"]
               ELSE IF poll.cancelled THEN [poll EXCEPT !.pc = "done", !.err = "context canceled"]
               ELSE [poll EXCEPT !.pc = "request"]
    /\ UNCHANGED <<fanoutVars, registryVars, callVars, rw>>

\* the top of the poll loop: the context, then the deadline
LoopTop ==
    /\ poll.pc = "top"
    /\ poll' = IF poll.cancelled THEN [poll EXCEPT !.pc = "done", !.err = "context canceled"]
               ELSE IF poll.now > poll.deadline THEN [poll EXCEPT !.pc = "done", !.err = "TIMEOUT"]
               ELSE [poll EXCEPT !.pc = "request"]
    /\ UNCHANGED <<fanoutVars, registryVars, callVars, rw>>

\* the GET of a poll is answered after d ticks
RequestReturns(d) ==
    /\ poll.pc = "request"
    /\ LET status == Answer(poll.script, poll.asked + 1)
           out == IF poll.op = "GetRates" THEN RatesOutcome(status) ELSE ShipmentOutcome(status)
       IN  poll' = [poll EXCEPT !.pc = out.pc, !.ok = out.ok, !.err = out.err, !.status = status,
                                !.asked = @ + 1, !.polls = @ + 1, !.now = @ + d]
    /\ UNCHANGED <<fanoutVars, registryVars, callVars, rw>>

\* the GET of a poll fails because the context was cancelled meanwhile
RequestCancelled ==
    /\ poll.pc = "request"
    /\ poll.cancelled
    /\ poll' = [poll EXCEPT !.pc = "done", !.err = "context canceled", !.polls = @ + 1]
    /\ UNCHANGED <<fanoutVars, registryVars, callVars, rw>>

\* time.Sleep(c.pollInterval)
Sleep ==
    /\ poll.pc = "sleep"
    /\ poll' = [poll EXCEPT !.pc = "top", !.now = @ + PollInterval]
    /\ UNCHANGED <<fanoutVars, registryVars, callVars, rw>>

\* the caller cancels the context of the call
CancelPoll ==
    /\ poll.pc \in {"top", "request", "sleep"}
    /\ ~poll.cancelled
    /\ poll' = [poll EXCEPT !.cancelled = TRUE]
    /\ UNCHANGED <<fanoutVars, registryVars, callVars, rw>>

\* the Status of the order freightcom's CreateOrder returns for the shipment
\* the transport handed it: shipmentResponseToShipper
OrderStatus == mapStatus(poll.status)

NextPoll ==
    \/ \E script \in Scripts(RateStatuses) : SubmitRates(script)
    \/ \E script \in Scripts(ShipmentStatuses) : SubmitShipment(script)
    \/ LoopTop
    \/ \E d \in 0..1 : RequestReturns(d)
    \/ RequestCancelled
    \/ Sleep
    \/ CancelPoll

SpecPoll == Init /\ [][NextPoll]_vars

\* The goroutine of the call keeps running, and every request is answered
\* (the HTTP client has a timeout of its own).
SpecPollFair ==
    /\ Init /\ [][NextPoll]_vars
    /\ WF_vars(LoopTop)
    /\ WF_vars(\E d \in 0..1 : RequestReturns(d))
    /\ WF_vars(Sleep)

-----------------------------------------------------------------------------
(* The purolator SOAP transport: parsing an HTTP-200 response body *)

Parsers == {"parseRatesResponse", "parseShipmentResponse", "parseLabelResponse",
            "parseVoidResponse", "parseTrackingResponse"}

\* the element of the SOAP body each parser reads its result from
ResponseElement(parser) ==
    CASE parser = "parseRatesResponse" -> "GetFullEstimateResponse"
      [] parser = "parseShipmentResponse" -> "CreateShipmentResponse"
      [] parser = "parseLabelResponse" -> "GetDocumentsResponse"
      [] parser = "parseVoidResponse" -> "VoidShipmentResponse"
      [] parser = "parseTrackingResponse" -> "TrackPackagesByPinResponse"

ResponseElements == {ResponseElement(p) : p \in Parsers}

\* how many errors ResponseInformation lists, at most
MaxErrors == 2

ErrorCodes == {"1100118", "3001116"}

\* A response body: whether it is XML that unmarshals, the faultcode of its
\* Fault element ("none": no Fault), the response element it holds ("none":
\* none), the Errors of that element's ResponseInformation, and whether the
\* element holds the operation's data (estimates, a shipment PIN, the
\* tracking information of the PIN asked for).
Envelopes ==
    [wellFormed : BOOLEAN, Fault : {"none", "soap:Server"}, element : ResponseElements \cup {"none"},
     Errors : UNION {[1..n -> ErrorCodes] : n \in 0..MaxErrors}, populated : BOOLEAN]

\* purolator APIError
SOAPError(code) == [kind |-> "APIError", pkg |-> "purolator", Code |-> code]

\* mutant: the Fault is looked at after the response element
EnvelopeError_ResultFirst(parser, env) ==
    IF ~env.wellFormed THEN WrapError("failed to parse response", [kind |-> "xmlError", text |-> "syntax error"])
    ELSE IF env.element = ResponseElement(parser) /\ Len(env.Errors) = 0 THEN NilError
    ELSE IF env.Fault # "none" THEN SOAPError(env.Fault)
    ELSE IF env.element # ResponseElement(parser) THEN SOAPError("PARSE_ERROR")
    ELSE SOAPError(env.Errors[1])

\* what the five parsers have in common: unmarshal, Fault, the response
\* element, ResponseInformation.Errors; nil when the result can be read
EnvelopeError(parser, env) ==
    IF ~env.wellFormed THEN WrapError("failed to parse response", [kind |-> "xmlError", text |-> "syntax error"])
    ELSE IF env.Fault # "none" THEN SOAPError(env.Fault)
    ELSE IF env.element # ResponseElement(parser) THEN SOAPError("PARSE_ERROR")
    ELSE IF Len(env.Errors) > 0 THEN SOAPError(env.Errors[1])
    ELSE NilError

\* what a parser other than the label parser returns once the envelope is
\* accepted: the tracking parser fails when the PIN is not in the response
ResultError(parser, env) ==
    IF parser = "parseTrackingResponse" /\ ~env.populated THEN SOAPError("TRACKING_NOT_FOUND")
    ELSE NilError

ParseResponse(parser, env) ==
    /\ parser # "parseLabelResponse"
    /\ LET err == IF EnvelopeError(parser, env) # NilError THEN EnvelopeError(parser, env)
                  ELSE ResultError(parser, env)
       IN  fnCall' = [fn |-> parser, env |-> env, ok |-> err = NilError, err |-> err]
    /\ UNCHANGED <<fanoutVars, registryVars, idCall, isCall, procVars>>

\* base64.StdEncoding.DecodeString on what EncodeToString gives for n bytes
\* A; any other string here is not base64
DecodeString(s) ==
    IF \E n \in 0..MaxBytes : s = EncodeToString(n)
    THEN [bytes |-> CHOOSE n \in 0..MaxBytes : s = EncodeToString(n), err |-> NilError]
    ELSE [bytes |-> 0, err |-> [kind |-> "base64Error", text |-> "illegal base64 data"]]

\* the document details a GetDocumentsResponse carries
DocumentDetails ==
    {[DocumentStatus |-> "Completed", Data |-> "QQ=="],
     [DocumentStatus |-> "Completed", Data |-> "QUFB"],
     [DocumentStatus |-> "Completed", Data |-> "QQ"],
     [DocumentStatus |-> "Pending", Data |-> "QUE="]}

\* how many details a document has, at most
MaxDetails == 2

Documents == UNION {[1..n -> DocumentDetails] : n \in 0..MaxDetails}

DocumentLists == UNION {[1..n -> Documents] : n \in 0..2}

\* the details of all documents, in document order
RECURSIVE Flatten(_)
Flatten(docs) == IF docs = <<>> THEN <<>> ELSE Head(docs) \o Flatten(Tail(docs))

\* mutant: the first detail is the label, whatever its status
FindLabel_First(docs) ==
    LET details == Flatten(docs)
    IN  IF details = <<>> THEN [found |-> FALSE, detail |-> 0]
        ELSE [found |-> TRUE, detail |-> 1]

\* parseLabelResponse's two loops: the first detail, documents in order and
\* details in order within each, whose DocumentStatus is "Completed"
FindLabel(docs) ==
    LET details == Flatten(docs)
        Completed == {i \in DOMAIN details : details[i].DocumentStatus = "Completed"}
    IN  IF Completed = {} THEN [found |-> FALSE, detail |-> 0]
        ELSE [found |-> TRUE, detail |-> CHOOSE i \in Completed : \A j \in Completed : i <= j]

ParseLabelResponse(env, docs) ==
    /\ LET e == EnvelopeError("parseLabelResponse", env)
           l == FindLabel(docs)
           d == IF l.found THEN DecodeString(Flatten(docs)[l.detail].Data) ELSE [bytes |-> 0, err |-> NilError]
           err == IF e # NilError THEN e
                  ELSE IF ~l.found THEN SOAPError("LABEL_NOT_FOUND")
                  ELSE IF d.err # NilError THEN WrapError("failed to decode label data", d.err)
                  ELSE NilError
       IN  fnCall' = [fn |-> "parseLabelResponse", env |-> env, docs |-> docs,
                      ok |-> err = NilError, err |-> err,
                      detail |-> IF err = NilError THEN l.detail ELSE 0,
                      Data |-> IF err = NilError THEN d.bytes ELSE 0]
    /\ UNCHANGED <<fanoutVars, registryVars, idCall, isCall, procVars>>

\* the HTTP statuses the carrier's endpoint answers with
HTTPStatuses == {200, 404, 500}

\* mutant: a body that is not read when the status is not 200
parseSOAPError_StatusOnly(status, env) == SOAPError("HTTP_" \o ToString(status))

\* the error of an answer whose HTTP status is not 200
parseSOAPError(status, env) ==
    IF env.wellFormed /\ env.Fault # "none" THEN SOAPError(env.Fault)
    ELSE SOAPError("HTTP_" \o ToString(status))

\* the error the operation's parser returns for a body, nil when it returns
\* a result
ParserError(parser, env, docs) ==
    IF EnvelopeError(parser, env) # NilError THEN EnvelopeError(parser, env)
    ELSE IF parser # "parseLabelResponse" THEN ResultError(parser, env)
    ELSE IF ~FindLabel(docs).found THEN SOAPError("LABEL_NOT_FOUND")
    ELSE IF DecodeString(Flatten(docs)[FindLabel(docs).detail].Data).err # NilError
         THEN WrapError("failed to decode label data", DecodeString(Flatten(docs)[FindLabel(docs).detail].Data).err)
    ELSE NilError

\* GetRates, CreateShipment, GetLabel, VoidShipment or GetTracking once the
\* carrier has answered: the HTTP status, then the operation's parser
SOAPOperation(parser, status, env, docs) ==
    /\ LET err == IF status # 200 THEN parseSOAPError(status, env) ELSE ParserError(parser, env, docs)
       IN  fnCall' = [fn |-> "SOAPOperation", parser |-> parser, status |-> status, env |-> env,
                      docs |-> docs, ok |-> err = NilError, err |-> err]
    /\ UNCHANGED <<fanoutVars, registryVars, idCall, isCall, procVars>>

\* The calls share no state, so a behaviour follows one of them.
NextSOAP ==
    /\ fnCall = NoFnCall
    /\ \/ \E parser \in Parsers, env \in Envelopes : ParseResponse(parser, env)
       \/ \E env \in {x \in Envelopes : x.populated /\ Len(x.Errors) <= 1 /\ x.element \in {"GetDocumentsResponse", "none"}},
             docs \in DocumentLists : ParseLabelResponse(env, docs)
       \/ \E parser \in Parsers, status \in HTTPStatuses, env \in Envelopes :
             \E docs \in (IF parser = "parseLabelResponse" THEN {d \in DocumentLists : Len(d) <= 1} ELSE {<<>>}) :
                SOAPOperation(parser, status, env, docs)

SpecSOAP == Init /\ [][NextSOAP]_vars

-----------------------------------------------------------------------------
(* The GraphQL helpers: from request inputs to the shipper's types *)

\* An optional input field is a pointer: nil, or the address of a value.
NilPtr == <<>>

Ptr(v) == <<v>>

Optional(S) == {NilPtr} \cup {Ptr(v) : v \in S}

Deref(p) == p[1]

\* the enumerations of the generated GraphQL types, by the names of their values
DimensionUnits == {"DimensionUnitCm", "DimensionUnitIn"}

WeightUnits == {"WeightUnitKg", "WeightUnitLb"}

PackageTypes == {"PackageTypeBox", "PackageTypeEnvelope", "PackageTypeTube",
                 "PackageTypePallet", "PackageTypeCustom"}

dimensionUnitToModel(du) ==
    CASE du = "DimensionUnitCm" -> "cm"
      [] du = "DimensionUnitIn" -> "in"
      [] OTHER -> "cm"

weightUnitToModel(wu) ==
    CASE wu = "WeightUnitKg" -> "kg"
      [] wu = "WeightUnitLb" -> "lb"
      [] OTHER -> "kg"

packageTypeToModel(pt) ==
    CASE pt = "PackageTypeBox" -> "box"
      [] pt = "PackageTypeEnvelope" -> "envelope"
      [] pt = "PackageTypeTube" -> "tube"
      [] pt = "PackageTypePallet" -> "pallet"
      [] pt = "PackageTypeCustom" -> "custom"
      [] OTHER -> "box"

CountryCodes == {"CA", "US", ""}

Currencies == {"CAD", "USD", ""}

\* *generated.AddressInput: nil, or an input with its required Name and its
\* optional CountryCode and IsResidential (the other fields are copied the
\* same way and left out)
AddressInputs ==
    Optional([Name : {"John Doe"}, CountryCode : Optional(CountryCodes), IsResidential : Optional(BOOLEAN)])

\* shipper.Address{}
ZeroAddress == [Name |-> "", CountryCode |-> "", IsResidential |-> FALSE]

\* mutant: the country code is the default whatever was supplied
addressInputToModel_AlwaysDefault(input) ==
    IF input = NilPtr THEN ZeroAddress
    ELSE [Name |-> Deref(input).Name, CountryCode |-> "CA",
          IsResidential |-> IF Deref(input).IsResidential # NilPtr THEN Deref(Deref(input).IsResidential) ELSE FALSE]

addressInputToModel(input) ==
    IF input = NilPtr THEN ZeroAddress
    ELSE [Name |-> Deref(input).Name,
          CountryCode |-> IF Deref(input).CountryCode # NilPtr THEN Deref(Deref(input).CountryCode) ELSE "CA",
          IsResidential |-> IF Deref(input).IsResidential # NilPtr THEN Deref(Deref(input).IsResidential) ELSE FALSE]

\* generated.PackageInput, its four optional fields with a default
PackageInputs ==
    [DimensionUnit : Optional(DimensionUnits), WeightUnit : Optional(WeightUnits),
     PackageType : Optional(PackageTypes), Currency : Optional(Currencies)]

\* how many packages a request has, at most
MaxPackages == 2

\* the package lists of a request: every single package, and the longer
\* lists of packages that differ in their units and currency
PackageLists ==
    [1..1 -> PackageInputs] \cup
    UNION {[1..n -> {p \in PackageInputs : p.PackageType = NilPtr /\ p.Currency \in {NilPtr, Ptr("USD")}}] : n \in 0..MaxPackages}

packageInputToModel(input) ==
    [DimensionUnit |-> IF input.DimensionUnit # NilPtr THEN dimensionUnitToModel(Deref(input.DimensionUnit)) ELSE "cm",
     WeightUnit |-> IF input.WeightUnit # NilPtr THEN weightUnitToModel(Deref(input.WeightUnit)) ELSE "kg",
     PackageType |-> IF input.PackageType # NilPtr THEN packageTypeToModel(Deref(input.PackageType)) ELSE "box",
     Currency |-> IF input.Currency # NilPtr THEN Deref(input.Currency) ELSE "CAD"]

packagesInputToModel(inputs) == [i \in DOMAIN inputs |-> packageInputToModel(inputs[i])]

CallAddressInputToModel(input) ==
    /\ fnCall' = [fn |-> "addressInputToModel", input |-> input, result |-> addressInputToModel(input)]
    /\ UNCHANGED <<fanoutVars, registryVars, idCall, isCall, procVars>>

CallPackagesInputToModel(inputs) ==
    /\ fnCall' = [fn |-> "packagesInputToModel", input |-> inputs, result |-> packagesInputToModel(inputs)]
    /\ UNCHANGED <<fanoutVars, registryVars, idCall, isCall, procVars>>

\* The calls share no state, so a behaviour follows one of them.
NextHelpers ==
    /\ fnCall = NoFnCall
    /\ \/ \E input \in AddressInputs : CallAddressInputToModel(input)
       \/ \E inputs \in PackageLists : CallPackagesInputToModel(inputs)

SpecHelpers == Init /\ [][NextHelpers]_vars

-----------------------------------------------------------------------------
(* The registry's lock: goroutines inside Register, Get, All, Names, Count *)

ReadMethods == {"Get", "All", "Names", "Count"}

\* mutant: the deferred unlock is missing
Released_Never(m, g, mode) == m

\* mutant: Register takes the read lock as the other methods do
Mode_AllRLock(fn) == "RLock"

\* the lock a method takes on entry (and releases by its defer)
Mode(fn) == IF fn = "Register" THEN "Lock" ELSE "RLock"

\* sync.RWMutex: Lock returns when no goroutine holds the mutex, RLock when
\* no writer holds it (a reader may also have to wait for a writer that is
\* waiting: that restricts the schedules, not the states of the registry)
Acquired(m, g, mode) ==
    IF mode = "Lock" THEN [m EXCEPT !.writer = g] ELSE [m EXCEPT !.readers = @ \cup {g}]

CanAcquire(m, mode) ==
    IF mode = "Lock" THEN m.writer = 0 /\ m.readers = {} ELSE m.writer = 0

Released(m, g, mode) ==
    IF mode = "Lock" THEN [m EXCEPT !.writer = 0] ELSE [m EXCEPT !.readers = @ \ {g}]

\* goroutine g enters method fn: r.mu.Lock() or r.mu.RLock() returns
Enter(g, fn, arg) ==
    /\ rw.at[g] = "idle"
    /\ CanAcquire(rw.mu, Mode(fn))
    /\ rw' = [mu |-> Acquired(rw.mu, g, Mode(fn)),
              at |-> [rw.at EXCEPT ![g] = "locked"],
              fn |-> [rw.fn EXCEPT ![g] = fn],
              arg |-> [rw.arg EXCEPT ![g] = arg]]
    /\ UNCHANGED <<fanoutVars, registryVars, callVars, poll>>

\* the body of the method: Register writes r.shippers[s.Name()], the others
\* read the map
Body(g) ==
    /\ rw.at[g] = "locked"
    /\ shippers' = IF rw.fn[g] = "Register" THEN RegisterMap(shippers, rw.arg[g]) ELSE shippers
    /\ rw' = [rw EXCEPT !.at[g] = "deferred"]
    /\ UNCHANGED <<fanoutVars, regLog, lastRead, callVars, poll>>

\* the deferred r.mu.Unlock() or r.mu.RUnlock(), and the return
Leave(g) ==
    /\ rw.at[g] = "deferred"
    /\ rw' = [mu |-> Released(rw.mu, g, Mode(rw.fn[g])),
              at |-> [rw.at EXCEPT ![g] = "idle"],
              fn |-> [rw.fn EXCEPT ![g] = "none"],
              arg |-> [rw.arg EXCEPT ![g] = ""]]
    /\ UNCHANGED <<fanoutVars, registryVars, callVars, poll>>

NextLock ==
    \/ \E g \in Callers, s \in Adapters : Enter(g, "Register", s)
    \/ \E g \in Callers, name \in CarrierNames : Enter(g, "Get", name)
    \/ \E g \in Callers, fn \in ReadMethods \ {"Get"} : Enter(g, fn, "")
    \/ \E g \in Callers : Body(g)
    \/ \E g \in Callers : Leave(g)

SpecLock == Init /\ [][NextLock]_vars

-----------------------------------------------------------------------------
(* The fan-outs and the registry's lock: r.All() and r.Get(name) take the  *)
(* read lock, Register the write lock, the carriers are called without     *)

\* the goroutine of the fan-out's caller and of its i-th task, as holders of
\* Registry.mu beside the Callers
FanoutCaller == MaxCallers + 1

TaskReader(i) == MaxCallers + 1 + i

\* GetAllQuotes, r.All(): r.mu.RLock() returns
AllRLock ==
    /\ pc = "idle"
    /\ CanAcquire(rw.mu, "RLock")
    /\ pc' = "all"
    /\ op' = "GetAllQuotes"
    /\ carriers' = <<>>
    /\ rw' = [rw EXCEPT !.mu = Acquired(@, FanoutCaller, "RLock")]
    /\ UNCHANGED <<shippers, snapshot, tasks, results, errs, mu, parentDone, groupDone, regLog, lastRead, callVars, poll>>

\* r.All() copies the map and returns (the deferred RUnlock), and
\* GetAllQuotes starts a task for each shipper of the copy
AllRUnlock ==
    /\ pc = "all"
    /\ EnterGetAllQuotes(Snapshot(shippers))
    /\ rw' = [rw EXCEPT !.mu = Released(@, FanoutCaller, "RLock")]
    /\ UNCHANGED <<shippers, op, carriers, regLog, lastRead, callVars, poll>>

\* a GetQuotesFromCarriers task, r.Get(name): r.mu.RLock() returns
TaskGetRLock(i) ==
    /\ i \in DOMAIN tasks
    /\ tasks[i].pc = "spawned"
    /\ tasks[i].s = NoShipper
    /\ CanAcquire(rw.mu, "RLock")
    /\ tasks' = [tasks EXCEPT ![i].pc = "lookup"]
    /\ rw' = [rw EXCEPT !.mu = Acquired(@, TaskReader(i), "RLock")]
    /\ UNCHANGED <<shippers, pc, op, carriers, snapshot, results, errs, mu, parentDone, groupDone, regLog, lastRead, callVars, poll>>

\* r.Get(name) looks the name up and returns (the deferred RUnlock); the
\* task goes on to the carrier's GetQuote or to the not-found error
TaskGetRUnlock(i) ==
    /\ i \in DOMAIN tasks
    /\ tasks[i].pc = "lookup"
    /\ LET g == Get(shippers, tasks[i].name) IN
       tasks' = IF g.err = NilError
                THEN [tasks EXCEPT ![i].pc = "quoting", ![i].s = g.s]
                ELSE [tasks EXCEPT ![i].pc = "notfound"]
    /\ rw' = [rw EXCEPT !.mu = Released(@, TaskReader(i), "RLock")]
    /\ UNCHANGED <<shippers, pc, op, carriers, snapshot, results, errs, mu, parentDone, groupDone, regLog, lastRead, callVars, poll>>

\* the carrier lists of the GetQuotesFromCarriers calls
QuoteLists == {<<"freightcom">>, <<"purolator", "freightcom">>}

\* A fan-out at a time, beside goroutine 1 registering adapters and
\* goroutine 2 counting them.
NextQuoteLock ==
    \/ AllRLock
    \/ AllRUnlock
    \/ \E list \in QuoteLists : CallGetQuotesFromCarriers(list)
    \/ \E i \in DOMAIN tasks : TaskGetRLock(i)
    \/ \E i \in DOMAIN tasks : TaskGetRUnlock(i)
    \/ \E i \in DOMAIN tasks : TaskGetQuote(i)
    \/ \E i \in DOMAIN tasks : GetQuoteReturns(i)
    \/ \E i \in DOMAIN tasks : TaskLock(i)
    \/ \E i \in DOMAIN tasks : TaskAppend(i)
    \/ Wait
    \/ Done
    \/ \E s \in Adapters : Enter(1, "Register", s)
    \/ Enter(2, "Count", "")
    \/ \E g \in 1..2 : Body(g)
    \/ \E g \in 1..2 : Leave(g)

\* Every goroutine inside a method of the registry runs on to its unlock,
\* and a task that asks for the read lock again and again gets it; a carrier
\* need never answer.
SpecQuoteLockFair ==
    /\ Init /\ [][NextQuoteLock]_vars
    /\ WF_vars(AllRUnlock)
    /\ \A i \in 1..2 : WF_vars(TaskGetRUnlock(i)) /\ SF_vars(TaskGetRLock(i))
    /\ \A g \in 1..2 : WF_vars(Body(g)) /\ WF_vars(Leave(g))

-----------------------------------------------------------------------------
(* Properties of the fan-outs *)

Range(q) == {q[i] : i \in DOMAIN q}

\* how many responses in the results slice come from the carrier named n
ResultsOf(n) == Cardinality({i \in DOMAIN results : results[i].carrier = n})

\* how many errors in the errs slice are annotated with the carrier name n
ErrorsOf(n) == Cardinality({i \in DOMAIN errs : errs[i].kind = "annotated" /\ errs[i].carrier = n})

\* how many errors in the errs slice are Get's error for the name n
NotFoundOf(n) == Cardinality({i \in DOMAIN errs : errs[i] = GetError(n)})

Returned == pc = "returned"

InFlight == pc = "wait"

\* the step that calls the fan-out named f
Calls(f) == pc = "idle" /\ pc' # "idle" /\ op' = f

\* the slice GetAllQuotes ranges over holds every registered shipper once
SnapshotIsRegistry ==
    /\ Len(snapshot') = Count(shippers)
    /\ Range(snapshot') = {shippers[n] : n \in DOMAIN shippers}

\* every shipper of the snapshot contributed once: its response when its
\* GetQuote succeeded, an error carrying its name when it failed
OnePerCarrier ==
    /\ Len(tasks) = Len(snapshot)
    /\ Len(results) + Len(errs) = Len(snapshot)
    /\ \A k \in DOMAIN snapshot :
          /\ tasks[k].s = snapshot[k]
          /\ tasks[k].out # "none"
          /\ IF tasks[k].out = "ok"
             THEN /\ ResultsOf(Name(snapshot[k])) = 1
                  /\ Response(snapshot[k]) \in Range(results)
                  /\ ErrorsOf(Name(snapshot[k])) = 0
             ELSE /\ ResultsOf(Name(snapshot[k])) = 0
                  /\ ErrorsOf(Name(snapshot[k])) = 1
                  /\ Annotate(Name(snapshot[k]), Cause(tasks[k].out)) \in Range(errs)

C1_Returned ==
    (Returned /\ op = "GetAllQuotes" /\ Len(snapshot) > 0) =>
        /\ OnePerCarrier
        /\ (Len(snapshot) = 3 /\ \A k \in DOMAIN snapshot : tasks[k].out = "ok")
              => (Len(results) = 3 /\ Len(errs) = 0)

\* C1: GetAllQuotes over a non-empty registry returns exactly one response
\* for each registered carrier whose GetQuote succeeded and exactly one error
\* for each whose GetQuote failed, under every interleaving of the tasks:
\* len(results) + len(errs) is the number of registered carriers, no carrier
\* contributes twice or to both slices, and three succeeding carriers give
\* three responses and no error.
C1_OnePerCarrier ==
    /\ []C1_Returned
    /\ [][Calls("GetAllQuotes") => SnapshotIsRegistry]_vars

\* a call over three carriers returned two responses and one error
C1_Witness ==
    /\ Returned /\ op = "GetAllQuotes" /\ ~parentDone
    /\ Len(snapshot) = 3 /\ Len(results) = 2 /\ Len(errs) = 1

\* the outcome of task t is in the slices
Included(t) ==
    IF t.out = "ok"
    THEN Response(t.s) \in Range(results)
    ELSE Annotate(t.name, Cause(t.out)) \in Range(errs)

\* C2: in both fan-outs a carrier's failure does not abort the others.  While
\* the call is in flight the context the tasks run under is done only if the
\* caller's context is (no GetQuote ever returns the context's error
\* otherwise), and when the call returns every task has run to its end, every
\* carrier that was found had its GetQuote invoked, and its outcome is in the
\* returned slices.
C2_FailureDoesNotAbort ==
    /\ InFlight => (CtxDone => parentDone)
    /\ \A i \in DOMAIN tasks : tasks[i].out = "ctx" => parentDone
    /\ Returned =>
          \A i \in DOMAIN tasks :
             /\ tasks[i].pc = "done"
             /\ tasks[i].s # NoShipper => (tasks[i].out # "none" /\ Included(tasks[i]))

\* a carrier has failed and its task has returned while another carrier's
\* GetQuote is running under a context that is still live
C2_Witness ==
    /\ InFlight /\ ~CtxDone
    /\ \E i, j \in DOMAIN tasks :
          /\ tasks[i].pc = "done" /\ tasks[i].out = "err"
          /\ tasks[j].pc = "quoting"

C3_AllFailed ==
    (Returned /\ Len(tasks) > 0 /\ \A i \in DOMAIN tasks : tasks[i].out # "ok") =>
        (Len(results) = 0 /\ Len(errs) = Len(tasks))

C3_EmptyStep ==
    (Calls("GetAllQuotes") /\ Count(shippers) = 0) =>
        /\ pc' = "returned"
        /\ Len(results') = 0
        /\ Len(errs') = 1 /\ IsCarrierNotFound(errs'[1])
        /\ Len(tasks') = 0

\* C3: GetAllQuotes on a registry without carriers returns at once, with no
\* result and exactly one error, which matches ErrCarrierNotFound, and starts
\* no task; a fan-out all of whose carriers fail returns no result and one
\* error per task.
C3_EmptyAndAllFailed ==
    /\ []C3_AllFailed
    /\ [][C3_EmptyStep]_vars

\* GetAllQuotes has returned on an empty registry
C3_Witness ==
    /\ Returned /\ op = "GetAllQuotes" /\ Count(shippers) = 0
    /\ Len(snapshot) = 0 /\ Len(results) = 0 /\ errs = <<ErrCarrierNotFound>>

\* the answer of GetAllQuotes as a function of the slice it ranged over
AnswerOfSnapshot ==
    IF Len(snapshot) = 0
    THEN /\ Len(tasks) = 0
         /\ Len(results) = 0
         /\ Len(errs) = 1 /\ IsCarrierNotFound(errs[1])
    ELSE OnePerCarrier

EmptyList == op = "GetQuotesFromCarriers" /\ Len(carriers) = 0

\* C4: GetQuotesFromCarriers with an empty carrier list answers as
\* GetAllQuotes does.  Both range over the shippers registered when they are
\* called, and both return the same answer for the same shippers: one outcome
\* per shipper, and the single ErrCarrierNotFound when there is none.
C4_EmptyListIsGetAllQuotes ==
    /\ [](Returned /\ (op = "GetAllQuotes" \/ EmptyList) => AnswerOfSnapshot)
    /\ [][(Calls("GetAllQuotes") \/ (Calls("GetQuotesFromCarriers") /\ Len(carriers') = 0)) => SnapshotIsRegistry]_vars

\* GetQuotesFromCarriers with an empty list has returned a response and an error
C4_Witness ==
    /\ Returned /\ EmptyList /\ ~parentDone
    /\ Len(results) > 0 /\ Len(errs) > 0

\* the tasks of the name n that satisfy P
TasksOf(n, P(_)) == Cardinality({i \in DOMAIN tasks : tasks[i].name = n /\ P(tasks[i])})

Found(t) == t.s # NoShipper
Succeeded(t) == Found(t) /\ t.out = "ok"
Failed(t) == Found(t) /\ t.out # "ok"
Missing(t) == ~Found(t)

C5_Returned ==
    (Returned /\ op = "GetQuotesFromCarriers" /\ Len(carriers) > 0) =>
        /\ Len(tasks) = Len(carriers)
        /\ Len(results) + Len(errs) = Len(carriers)
        /\ \A i \in DOMAIN carriers :
              /\ tasks[i].name = carriers[i]
              /\ Found(tasks[i]) =>
                    /\ Name(tasks[i].s) = carriers[i]
                    /\ tasks[i].out # "none"
                    /\ Included(tasks[i])
              /\ Missing(tasks[i]) =>
                    /\ tasks[i].out = "none"
                    /\ GetError(carriers[i]) \in Range(errs)
        /\ \A n \in CarrierNames :
              /\ ResultsOf(n) = TasksOf(n, Succeeded)
              /\ ErrorsOf(n) = TasksOf(n, Failed)
              /\ NotFoundOf(n) = TasksOf(n, Missing)
        /\ \A e \in Range(errs) :
              IsCarrierNotFound(e) <=> \E i \in DOMAIN tasks : Missing(tasks[i]) /\ e = GetError(tasks[i].name)

\* a task's lookup answers by the registry as it is at the lookup
C5_Lookup ==
    \A i \in DOMAIN tasks :
        (InOrder /\ tasks[i].pc = "spawned" /\ tasks'[i].pc # "spawned") =>
            IF tasks[i].name \in DOMAIN shippers
            THEN tasks'[i].pc = "quoting" /\ tasks'[i].s = shippers[tasks[i].name]
            ELSE tasks'[i].pc = "notfound" /\ Missing(tasks'[i])

\* C5: GetQuotesFromCarriers with a non-empty list returns one outcome per
\* listed name: for a name registered when its task looks it up, the response
\* or the annotated error of the shipper registered under that name; for a
\* name that is not registered, an error matching ErrCarrierNotFound that
\* names it.  Only errors of unregistered names match ErrCarrierNotFound, and
\* no carrier outside the list is queried.
C5_OnePerListedName ==
    /\ []C5_Returned
    /\ [][C5_Lookup]_vars

\* one listed name was registered and answered, the other was not registered
C5_Witness ==
    /\ Returned /\ op = "GetQuotesFromCarriers" /\ Len(carriers) = 2
    /\ Len(results) = 1 /\ Len(errs) = 1 /\ IsCarrierNotFound(errs[1])

\* C6 (as amended): a fan-out returns only when every task it launched has
\* completed, whether or not the caller's context has been cancelled.
C6_ReturnsAfterEveryTask ==
    Returned => \A i \in DOMAIN tasks : tasks[i].pc = "done" /\ (Found(tasks[i]) => tasks[i].out # "none")

\* GetAllQuotes has returned after its context was cancelled
C6_Witness ==
    /\ Returned /\ op = "GetAllQuotes" /\ parentDone /\ Len(tasks) > 0

\* C6 (as claimed): while the context is live the call cannot return before
\* every task has completed, and once the caller's context is cancelled the
\* call can return, even if some GetQuote has not returned.
C6_ReturnsOnceCancelled ==
    (pc = "wait" /\ op = "GetAllQuotes") =>
        /\ ~parentDone => (ENABLED Wait => \A i \in DOMAIN tasks : tasks[i].pc = "done")
        /\ parentDone => ENABLED Wait

\* the tasks between mu.Lock() and mu.Unlock()
Appending == {i \in DOMAIN tasks : tasks[i].pc \in {"locked", "lockednf"}}

IsPrefix(q, r) == Len(q) <= Len(r) /\ SubSeq(r, 1, Len(q)) = q

\* C21: in both fan-outs a task appends to results or errs only while it
\* holds the call's mutex, on the not-found, the error and the success path;
\* at most one task is between Lock and Unlock; every append adds one element
\* and keeps what was there, so a returned call has one element per task; and
\* a call starts on empty slices and a free mutex of its own.
C21_AppendsUnderMutex ==
    /\ [](\A i \in Appending : mu = i)
    /\ [][(pc = "wait" /\ (results' # results \/ errs' # errs)) =>
             /\ mu \in Appending
             /\ tasks'[mu].pc = "done"
             /\ IsPrefix(results, results') /\ IsPrefix(errs, errs')
             /\ Len(results') + Len(errs') = Len(results) + Len(errs) + 1]_vars
    /\ []((Returned /\ tasks # <<>>) => Len(results) + Len(errs) = Len(tasks))
    /\ [][(pc = "idle" /\ pc' = "wait") => (results' = <<>> /\ errs' = <<>> /\ mu' = 0)]_vars

\* a task that found no carrier holds the mutex while another, back from its
\* carrier, waits for it
C21_Witness ==
    /\ InFlight
    /\ \E i, j \in DOMAIN tasks : tasks[i].pc = "lockednf" /\ mu = i /\ tasks[j].pc = "got"

-----------------------------------------------------------------------------
(* Properties of the ids *)

\* the tag the ids of a carrier are to start with
Tag(carrier) ==
    CASE carrier = "freightcom" -> "fc-"
      [] carrier = "canadapost" -> "cp-"
      [] carrier = "purolator" -> "puro-"

\* id is tag followed by some rest
StartsWith(id, tag) == \E k \in 0..Len(id) : id = tag \o SubSeq(id, k + 1, Len(id))

IssuedId == idCall.fn \in {"GetQuote", "CreateOrder"}

Resolved == idCall.fn \in {"carrierFromRateID", "carrierFromOrderID"}

\* C8: every RateID a GetQuote and every OrderID a CreateOrder of the three
\* adapters returns starts with the adapter's carrier tag, whatever ids the
\* transport answered with, so that carrierFromRateID / carrierFromOrderID of
\* it is the Carrier of the response.
C8_IdsCarryTheTag ==
    IssuedId => (StartsWith(idCall.id, Tag(idCall.carrier)) /\ idCall.owner = idCall.carrier)

\* the carrier an id belongs to by its literal prefix
OwnerByPrefix(id) ==
    IF StartsWith(id, "fc-") THEN "freightcom"
    ELSE IF StartsWith(id, "cp-") THEN "canadapost"
    ELSE IF StartsWith(id, "puro-") THEN "purolator"
    ELSE "unknown"

\* C9: the carrier resolved from an id depends on the id's literal prefix
\* only and is the same for a rate id and an order id: "fc-" gives
\* freightcom, "cp-" canadapost, "puro-" purolator, and every other id, the
\* empty one and one with a tag further in included, gives "unknown".
C9_ResolutionByPrefix ==
    Resolved =>
        /\ idCall.owner = OwnerByPrefix(idCall.id)
        /\ carrierFromRateID(idCall.id) = carrierFromOrderID(idCall.id)
        /\ idCall.id = "" => idCall.owner = "unknown"

\* an order id with a tag after its first character resolved to "unknown"
C9_Witness ==
    /\ idCall.fn = "carrierFromOrderID"
    /\ idCall.id = "xpuro-fc-"
    /\ idCall.owner = "unknown"

-----------------------------------------------------------------------------
(* Properties of errors.Is on ShipperErrors *)

Compared == isCall.e1 # NilError

\* the codes of the ShipperErrors in the chain of e: its own, its cause's, ...
RECURSIVE ChainCodes(_)
ChainCodes(e) == IF e.kind # "ShipperError" THEN {} ELSE {e.Code} \cup ChainCodes(e.Cause)

\* C10 (as amended): errors.Is(e1, e2) on two ShipperErrors is true exactly
\* when the Code of e2 is the Code of e1 or of a ShipperError in the cause
\* chain of e1, whatever their Carrier, Message, StatusCode and Retryable and
\* whatever the cause of e2; when no ShipperError is in the cause chain of e1,
\* it is true exactly when the two Codes are equal.
C10_IsByCodeAlongTheChain ==
    Compared =>
        /\ isCall.is <=> isCall.e2.Code \in ChainCodes(isCall.e1)
        /\ ChainCodes(isCall.e1.Cause) = {} => (isCall.is <=> isCall.e1.Code = isCall.e2.Code)

\* two errors of one Code that differ in everything else matched
C10_Witness ==
    /\ Compared /\ isCall.is
    /\ isCall.e1.Code = isCall.e2.Code
    /\ isCall.e1.Carrier # isCall.e2.Carrier
    /\ isCall.e1.Message # isCall.e2.Message
    /\ isCall.e1.StatusCode # isCall.e2.StatusCode
    /\ isCall.e1.Retryable # isCall.e2.Retryable
    /\ isCall.e1.Cause # isCall.e2.Cause

\* C10 (as claimed): errors.Is(e1, e2) is true if and only if the Codes of
\* e1 and e2 are equal, whatever their other fields and causes.
C10_IsByCodeOnly ==
    Compared => (isCall.is <=> isCall.e1.Code = isCall.e2.Code)

\* the errors of the chain of e, outermost first
RECURSIVE Chain(_)
Chain(e) == IF e = NilError THEN <<>> ELSE <<e>> \o Chain(UnwrapOf(e))

\* the positions of the ShipperErrors in a chain
Structured(ch) == {i \in DOMAIN ch : ch[i].kind = "ShipperError"}

\* C11: IsRetryable(err) is the Retryable flag of the ShipperError that err
\* is or wraps (the outermost one of its chain), also when a retryable
\* sentinel is its cause; for an error with no ShipperError in its chain it
\* is true exactly when ErrServiceUnavailable or ErrRateLimitExceeded is in
\* the chain, and false for every other sentinel and for nil.
C11_FlagBeforeSentinel ==
    fnCall.fn = "IsRetryable" =>
        LET ch == Chain(fnCall.err)
            S == Structured(ch)
        IN  IF S # {}
            THEN fnCall.val = ch[CHOOSE i \in S : \A j \in S : i <= j].Retryable
            ELSE fnCall.val <=> \E i \in DOMAIN ch : ch[i] \in {ErrServiceUnavailable, ErrRateLimitExceeded}

\* a wrapped ShipperError that is not retryable and whose cause is a
\* retryable sentinel was found not retryable
C11_Witness ==
    /\ fnCall.fn = "IsRetryable"
    /\ fnCall.err.kind = "wrapError"
    /\ fnCall.err.err.kind = "ShipperError"
    /\ ~fnCall.err.err.Retryable
    /\ fnCall.err.err.Cause = ErrServiceUnavailable
    /\ fnCall.val = FALSE

-----------------------------------------------------------------------------
(* Properties of the adapters' operations *)

\* C12: every error an operation of an adapter returns is a ShipperError
\* naming the adapter's carrier, whatever the failure of the transport; the
\* package's APIError or a raw transport error never reaches the caller.
C12_ErrorsAreStructured ==
    (fnCall.fn \in Operations /\ ~fnCall.ok) =>
        /\ fnCall.err.kind = "ShipperError"
        /\ fnCall.err.Carrier = fnCall.carrier

\* C18: every successful GetLabel of every adapter returns a Label with
\* non-empty inline Data or a non-empty URL, also for a freightcom shipment
\* without a label in the requested format and for a payload of zero bytes.
C18_LabelHasDataOrURL ==
    (fnCall.fn = "GetLabel" /\ fnCall.ok) => (fnCall.label.Data # "" \/ fnCall.label.URL # "")

\* C19: the ExpiresAt of a quote with at least one rate is the earliest
\* expiry of its rates: it is later than the ExpiresAt of none of them.
C19_QuoteExpiresWithEarliestRate ==
    (fnCall.fn = "GetQuote" /\ fnCall.ok /\ Len(fnCall.rates) > 0) =>
        /\ \A i \in DOMAIN fnCall.rates : fnCall.ExpiresAt <= fnCall.rates[i]
        /\ \E i \in DOMAIN fnCall.rates : fnCall.ExpiresAt = fnCall.rates[i]

\* C25: whatever the other fields of a carrier's mock are, an operation
\* whose override callback is set returns exactly what the callback returns,
\* and one whose callback is nil returns the canned response.
C25_CallbackReplacesDefault ==
    fnCall.fn = "MockAPIClient" =>
        fnCall.result = (IF fnCall.mock.set THEN fnCall.mock.returns ELSE Canned(fnCall.operation))

\* the destination variants populated in the rate request sent
Populated ==
    {v \in {"Domestic", "UnitedStates", "International"} : fnCall.sent.Destination[v] # <<>>}

\* C26: the rate request a Canada Post quote sends has exactly one
\* destination variant, chosen by the destination's country code alone:
\* domestic if and only if the code is "CA" or empty, United States if and
\* only if it is "US", international for every other code.
C26_OneDestinationVariant ==
    fnCall.fn = "canadapost.GetQuote" =>
        Populated = {IF fnCall.destination.CountryCode \in {"CA", ""} THEN "Domestic"
                     ELSE IF fnCall.destination.CountryCode = "US" THEN "UnitedStates"
                     ELSE "International"}

\* a quote for the United States was requested
C26_Witness ==
    /\ fnCall.fn = "canadapost.GetQuote" /\ fnCall.destination.CountryCode = "US"
    /\ fnCall.sent.Destination.UnitedStates # <<>>
    /\ fnCall.sent.Destination.Domestic = <<>> /\ fnCall.sent.Destination.International = <<>>

\* a postal code as it has to be sent: no space, no lower-case letter
Normal(code) == \A i \in 1..Len(code) : SubSeq(code, i, i) \notin {" ", "a", "b", "k", "m", "v"}

\* C27: every postal or zip code a Canada Post request carries (origin and
\* destination of a rate request, sender and destination of a shipment) is
\* the postal code of the domain request in upper case without spaces; the
\* normalisation is idempotent and leaves no space or lower-case letter.
C27_PostalCodesNormalised ==
    /\ fnCall.fn = "canadapost.GetQuote" =>
          /\ fnCall.sent.OriginPostalCode = normalizePostalCode(fnCall.origin)
          /\ Normal(fnCall.sent.OriginPostalCode)
          /\ normalizePostalCode(fnCall.sent.OriginPostalCode) = fnCall.sent.OriginPostalCode
          /\ fnCall.sent.Destination.Domestic # <<>> =>
                fnCall.sent.Destination.Domestic[1].PostalCode = normalizePostalCode(fnCall.destination.PostalCode)
          /\ fnCall.sent.Destination.UnitedStates # <<>> =>
                fnCall.sent.Destination.UnitedStates[1].ZipCode = normalizePostalCode(fnCall.destination.PostalCode)
    /\ fnCall.fn = "canadapost.CreateOrder" =>
          /\ fnCall.sent.Sender.PostalZipCode = normalizePostalCode(fnCall.sender)
          /\ fnCall.sent.Destination.PostalZipCode = normalizePostalCode(fnCall.recipient)
          /\ Normal(fnCall.sent.Sender.PostalZipCode) /\ Normal(fnCall.sent.Destination.PostalZipCode)

\* C29: purolator's CancelOrder returns an order with Status cancelled only
\* when the carrier reported the shipment voided.
C29_CancelledOnlyWhenVoided ==
    (fnCall.fn = "purolator.CancelOrder" /\ fnCall.order.Status = "cancelled") =>
        (fnCall.ShipmentVoided /\ fnCall.void.Status = "voided")

\* C30: the service purolator's or canadapost's CreateOrder asks for, given
\* the RateID of a quote, is the service that was quoted.
C30_RateIdRoundTrip ==
    fnCall.fn = "QuoteThenCreateOrder" => fnCall.requested = fnCall.quoted

-----------------------------------------------------------------------------
(* Properties of the submit-then-poll calls *)

PollDone(call) == poll.pc = "done" /\ poll.op = call

\* how many times the carrier answers pending before anything else
RECURSIVE LeadingPending(_)
LeadingPending(script) ==
    IF script = <<>> \/ Head(script) # "pending" THEN 0 ELSE 1 + LeadingPending(Tail(script))

NeverLeavesPending(script) == LeadingPending(script) = Len(script)

PendingThenComplete(script) ==
    /\ ~NeverLeavesPending(script)
    /\ script[LeadingPending(script) + 1] = "complete"

C13_Returned ==
    PollDone("GetRates") =>
        /\ poll.ok => (PendingThenComplete(poll.script) /\ poll.polls = LeadingPending(poll.script) + 1)
        /\ (PendingThenComplete(poll.script) /\ ~poll.cancelled /\ ~poll.ok) =>
              (poll.err = "TIMEOUT" /\ poll.now > poll.deadline)
        /\ (NeverLeavesPending(poll.script) /\ ~poll.cancelled) =>
              (~poll.ok /\ poll.err = "TIMEOUT" /\ poll.now > poll.deadline)

\* C13: when the caller does not cancel, a GetRates whose status endpoint
\* answers pending N times and then complete succeeds after exactly N + 1
\* polls, unless the poll deadline has passed before (then it fails with
\* TIMEOUT); one whose status never leaves pending fails with TIMEOUT after
\* the deadline has passed; and every GetRates returns.
C13_PollsUntilCompleteOrDeadline ==
    /\ []C13_Returned
    /\ (poll.pc # "idle" /\ poll.op = "GetRates") ~> (poll.pc = "done")

\* GetRates succeeded with its third poll after two pending answers
C13_Witness ==
    /\ PollDone("GetRates") /\ poll.ok
    /\ LeadingPending(poll.script) = 2 /\ poll.polls = 3

\* C14: the order a successful freightcom CreateOrder over the HTTP
\* transport returns never has the Status pending, whatever statuses the
\* carrier reported.
C14_NeverPending ==
    (PollDone("CreateShipment") /\ poll.ok) => OrderStatus # "pending"

\* C22: an iteration of pollRates or pollShipment that starts with the
\* context cancelled issues no request and returns the context's error, also
\* when the poll deadline has passed; so once the context is cancelled no
\* request is issued any more (an iteration under way ends with the answer of
\* its request, or with the context's error); TIMEOUT is returned only to a
\* caller that has not cancelled, after the deadline, which is PollTimeout
\* after the start of polling and does not move.
C22_ContextBeforeDeadline ==
    /\ [][(poll.pc = "top" /\ poll.cancelled) =>
             (poll'.pc = "done" /\ poll'.err = "context canceled" /\ ~poll'.ok /\ poll'.polls = poll.polls)]_vars
    /\ [][(poll.pc # "idle" /\ poll.cancelled) => ~(poll.pc # "request" /\ poll'.pc = "request")]_vars
    /\ []((poll.pc = "done" /\ poll.err = "TIMEOUT") => (~poll.cancelled /\ poll.now > poll.deadline))
    /\ [][(poll.pc \notin {"idle", "done"}) => poll'.deadline = poll.deadline]_vars
    /\ [](poll.pc # "idle" => poll.deadline = PollTimeout)

\* cancelled during a sleep that ended after the deadline, the call returned
\* the context's error
C22_Witness ==
    /\ poll.pc = "done" /\ poll.cancelled /\ poll.polls = 2
    /\ poll.now > poll.deadline
    /\ poll.err = "context canceled"

\* the statuses that end a poll loop with success
TerminalSuccess(call) ==
    IF call = "GetRates" THEN {"complete"} ELSE {"booked", "confirmed", "complete"}

\* C23: a poll loop returns success only for a terminal success status
\* (complete for rates; booked, confirmed or complete for shipments), and it
\* keeps polling while the status is none of the terminal values.
C23_SuccessOnlyWhenTerminal ==
    (poll.pc = "done" /\ poll.polls > 0 /\ poll.ok) => poll.status \in TerminalSuccess(poll.op)

-----------------------------------------------------------------------------
(* Properties of the SOAP parsers *)

Parsed == fnCall.fn \in Parsers /\ fnCall.env.wellFormed

\* C15: each of the five parsers answers a body with a Fault element by an
\* error carrying the fault code, also when the operation's response element
\* is there and populated; a body without Fault whose response element lists
\* Errors by an error carrying the code of the first of them; and returns a
\* result only when the body has neither.
C15_FaultThenErrors ==
    Parsed =>
        /\ fnCall.env.Fault # "none" => (~fnCall.ok /\ fnCall.err = SOAPError(fnCall.env.Fault))
        /\ (fnCall.env.Fault = "none" /\ fnCall.env.element = ResponseElement(fnCall.fn) /\ Len(fnCall.env.Errors) > 0) =>
              (~fnCall.ok /\ fnCall.err = SOAPError(fnCall.env.Errors[1]))
        /\ fnCall.ok => (fnCall.env.Fault = "none" /\ Len(fnCall.env.Errors) = 0)

\* the shipment parser refused a body with a Fault and a populated
\* CreateShipmentResponse without Errors
C15_Witness ==
    /\ fnCall.fn = "parseShipmentResponse" /\ fnCall.env.wellFormed
    /\ fnCall.env.Fault = "soap:Server"
    /\ fnCall.env.element = "CreateShipmentResponse" /\ fnCall.env.populated /\ Len(fnCall.env.Errors) = 0
    /\ ~fnCall.ok /\ fnCall.err.Code = "soap:Server"

LabelParsed ==
    /\ fnCall.fn = "parseLabelResponse"
    /\ EnvelopeError("parseLabelResponse", fnCall.env) = NilError

\* the details of the response in document order, and the Completed ones
LabelDetails == Flatten(fnCall.docs)

CompletedDetails == {i \in DOMAIN LabelDetails : LabelDetails[i].DocumentStatus = "Completed"}

\* C16: from a GetDocumentsResponse the label parser returns the decoded
\* payload of the first detail in document order whose DocumentStatus is
\* "Completed" (it fails when that payload is not base64); it fails with
\* LABEL_NOT_FOUND exactly when no detail, of no document, is Completed; a
\* detail with another status is never the label.
C16_FirstCompletedDetail ==
    LabelParsed =>
        /\ fnCall.ok =>
              /\ fnCall.detail \in CompletedDetails
              /\ \A j \in CompletedDetails : fnCall.detail <= j
              /\ EncodeToString(fnCall.Data) = LabelDetails[fnCall.detail].Data
        /\ (~fnCall.ok /\ fnCall.err = SOAPError("LABEL_NOT_FOUND")) <=> CompletedDetails = {}
        /\ (CompletedDetails # {} /\ ~fnCall.ok) => fnCall.err.kind = "wrapError"

\* the label is the second document's Completed detail, after a Pending one
C16_Witness ==
    /\ LabelParsed /\ fnCall.ok
    /\ Len(fnCall.docs) = 2
    /\ Len(fnCall.docs[1]) = 1 /\ fnCall.docs[1][1].DocumentStatus = "Pending"
    /\ fnCall.detail = 2 /\ fnCall.Data = 3

Answered == fnCall.fn = "SOAPOperation"

\* the body of the answer holds a Fault element
Faulted == fnCall.env.wellFormed /\ fnCall.env.Fault # "none"

\* C24: each of the five SOAP operations answers a status other than 200 by
\* an error, never by a result: with the fault code when the body holds a
\* Fault, with HTTP_<status> otherwise; with status 200, a Fault gives an
\* error with its code, then a missing response element PARSE_ERROR, then
\* listed Errors an error with the first code; and a result is returned only
\* when the status is 200 and the body has no Fault, has the operation's
\* response element and lists no Errors.
C24_StatusThenFaultThenErrors ==
    Answered =>
        /\ fnCall.status # 200 =>
              /\ ~fnCall.ok
              /\ fnCall.err = SOAPError(IF Faulted THEN fnCall.env.Fault ELSE "HTTP_" \o ToString(fnCall.status))
        /\ (fnCall.status = 200 /\ Faulted) => (~fnCall.ok /\ fnCall.err = SOAPError(fnCall.env.Fault))
        /\ (fnCall.status = 200 /\ fnCall.env.wellFormed /\ ~Faulted) =>
              /\ fnCall.env.element # ResponseElement(fnCall.parser) => (~fnCall.ok /\ fnCall.err = SOAPError("PARSE_ERROR"))
              /\ (fnCall.env.element = ResponseElement(fnCall.parser) /\ Len(fnCall.env.Errors) > 0) =>
                    (~fnCall.ok /\ fnCall.err = SOAPError(fnCall.env.Errors[1]))
        /\ fnCall.ok =>
              /\ fnCall.status = 200 /\ fnCall.env.wellFormed /\ ~Faulted
              /\ fnCall.env.element = ResponseElement(fnCall.parser) /\ Len(fnCall.env.Errors) = 0

\* status 500 with a Fault beside a populated estimate: the fault code
C24_Witness ==
    /\ Answered /\ fnCall.parser = "parseRatesResponse" /\ fnCall.status = 500
    /\ Faulted /\ fnCall.env.element = "GetFullEstimateResponse" /\ fnCall.env.populated
    /\ Len(fnCall.env.Errors) = 0
    /\ ~fnCall.ok /\ fnCall.err.Code = "soap:Server"

-----------------------------------------------------------------------------
(* Properties of the GraphQL helpers *)

\* the shipper's constant a supplied enumeration value stands for
ModelValue ==
    [DimensionUnitCm |-> "cm", DimensionUnitIn |-> "in", WeightUnitKg |-> "kg", WeightUnitLb |-> "lb",
     PackageTypeBox |-> "box", PackageTypeEnvelope |-> "envelope", PackageTypeTube |-> "tube",
     PackageTypePallet |-> "pallet", PackageTypeCustom |-> "custom"]

\* C17: an address input without country code becomes an Address with
\* CountryCode "CA" and a supplied country code is kept as it is; a package
\* input without dimension unit, weight unit, package type or currency becomes
\* a Package with cm, kg, box and "CAD", and a supplied value is kept (a unit
\* or type as the shipper's constant of that name, a currency as it is).
C17_DefaultsAndSuppliedValues ==
    /\ (fnCall.fn = "addressInputToModel" /\ fnCall.input # NilPtr) =>
          LET in == Deref(fnCall.input)
          IN  fnCall.result.CountryCode = (IF in.CountryCode = NilPtr THEN "CA" ELSE Deref(in.CountryCode))
    /\ fnCall.fn = "packagesInputToModel" =>
          /\ Len(fnCall.result) = Len(fnCall.input)
          /\ \A i \in DOMAIN fnCall.input :
                LET in == fnCall.input[i]
                    out == fnCall.result[i]
                IN  /\ out.DimensionUnit = (IF in.DimensionUnit = NilPtr THEN "cm" ELSE ModelValue[Deref(in.DimensionUnit)])
                    /\ out.WeightUnit = (IF in.WeightUnit = NilPtr THEN "kg" ELSE ModelValue[Deref(in.WeightUnit)])
                    /\ out.PackageType = (IF in.PackageType = NilPtr THEN "box" ELSE ModelValue[Deref(in.PackageType)])
                    /\ out.Currency = (IF in.Currency = NilPtr THEN "CAD" ELSE Deref(in.Currency))

\* two packages were converted, the first without any optional field
C17_Witness ==
    /\ fnCall.fn = "packagesInputToModel" /\ Len(fnCall.input) = 2
    /\ fnCall.input[1] = [DimensionUnit |-> NilPtr, WeightUnit |-> NilPtr, PackageType |-> NilPtr, Currency |-> NilPtr]
    /\ fnCall.input[2].DimensionUnit = Ptr("DimensionUnitIn")
    /\ fnCall.result[1] = [DimensionUnit |-> "cm", WeightUnit |-> "kg", PackageType |-> "box", Currency |-> "CAD"]
    /\ fnCall.result[2].DimensionUnit = "in"

-----------------------------------------------------------------------------
(* Properties of the registry's lock *)

\* the goroutines between the lock and the unlock of a method
Inside == {g \in Callers : rw.at[g] # "idle"}

\* C20: while a goroutine is between Register's Lock and Unlock, and so
\* whenever Register writes the map, no other goroutine is inside Register,
\* Get, All, Names or Count; the reading methods are not excluded by each
\* other (the witness has every goroutine inside one of them).
C20_RegisterExclusive ==
    /\ [](\A g \in Inside : rw.fn[g] = "Register" => Inside = {g})
    /\ [][shippers' # shippers => \E g \in Callers : Inside = {g} /\ rw.fn[g] = "Register"]_vars

\* after a Register, every goroutine is inside a reading method at once,
\* two of them in different methods
C20_Witness ==
    /\ shippers # <<>>
    /\ Inside = Callers
    /\ \A g \in Callers : rw.fn[g] \in ReadMethods /\ rw.at[g] = "locked"
    /\ rw.fn[1] = "Get" /\ rw.fn[2] = "Count"

-----------------------------------------------------------------------------
(* Properties of the fan-outs under the registry's lock *)

\* the fan-out's goroutines that are inside r.All() or r.Get(name)
InRegistry ==
    (IF pc = "all" THEN {FanoutCaller} ELSE {}) \cup
    {TaskReader(i) : i \in {j \in DOMAIN tasks : tasks[j].pc = "lookup"}}

\* a task is in its carrier's GetQuote
Quoting(i) == i \in DOMAIN tasks /\ tasks[i].pc = "quoting"

\* C28: the goroutines of a fan-out hold the registry's lock only inside
\* r.All() and r.Get(name), as readers, so none holds it while a carrier's
\* GetQuote runs; each of them gives the lock back without any carrier
\* answering, so a Register or a reader beside the fan-out never waits for a
\* carrier; a task's lookup gets the lock whatever Register does beside it;
\* and the tasks of GetAllQuotes are the shippers of the snapshot it took,
\* whatever is registered afterwards.
C28_NoLockAcrossCarrierCalls ==
    /\ [](rw.mu.readers \ Callers = InRegistry /\ rw.mu.writer \in Callers \cup {0})
    /\ [](\A i \in DOMAIN tasks : Quoting(i) => TaskReader(i) \notin rw.mu.readers /\ FanoutCaller \notin rw.mu.readers)
    /\ \A h \in {FanoutCaller, TaskReader(1), TaskReader(2)} : (h \in rw.mu.readers) ~> (h \notin rw.mu.readers)
    /\ \A i \in 1..2 : (InOrder /\ i \in DOMAIN tasks /\ tasks[i].pc = "spawned") ~> ~(InOrder /\ i \in DOMAIN tasks /\ tasks[i].pc = "spawned")
    /\ []((InFlight /\ ~InOrder) => (Len(tasks) = Len(snapshot) /\ \A i \in DOMAIN tasks : tasks[i].s = snapshot[i]))
    /\ [][(pc = "all" /\ pc' # "all") => Range(snapshot') = {shippers[n] : n \in DOMAIN shippers}]_vars

\* a carrier is being asked while Register holds the write lock and has
\* added a shipper the running GetAllQuotes does not ask
C28_Witness ==
    /\ InFlight /\ op = "GetAllQuotes"
    /\ \E i \in DOMAIN tasks : Quoting(i)
    /\ rw.mu.writer = 1 /\ rw.at[1] = "deferred"
    /\ Cardinality(DOMAIN shippers) > Len(snapshot)

-----------------------------------------------------------------------------
(* Properties of the registry as a map *)

RegisteredNames(log) == {Name(log[i]) : i \in DOMAIN log}

\* the shipper most recently registered under the name n
LastRegistered(log, n) ==
    LET I == {i \in DOMAIN log : Name(log[i]) = n}
    IN  log[CHOOSE i \in I : \A j \in I : j <= i]

NoDuplicates(q) == \A i, j \in DOMAIN q : q[i] = q[j] => i = j

\* C7: after any sequence of Register calls the registry is the map from
\* each registered name to the shipper most recently registered under it:
\* Count is the number of distinct names, Names and All list exactly those
\* names and shippers (each once), Get of a registered name returns the last
\* shipper registered under it and no error, and Get of a name never
\* registered returns no shipper and an error matching ErrCarrierNotFound.
C7_RegistryIsLastRegistered ==
    /\ lastRead.op = "Count" => lastRead.val = Cardinality(RegisteredNames(regLog))
    /\ lastRead.op = "Names" =>
          /\ NoDuplicates(lastRead.val)
          /\ Range(lastRead.val) = RegisteredNames(regLog)
    /\ lastRead.op = "All" =>
          /\ NoDuplicates(lastRead.val)
          /\ Range(lastRead.val) = {LastRegistered(regLog, n) : n \in RegisteredNames(regLog)}
    /\ lastRead.op = "Get" =>
          IF lastRead.arg \in RegisteredNames(regLog)
          THEN /\ lastRead.val.s = LastRegistered(regLog, lastRead.arg)
               /\ lastRead.val.err = NilError
          ELSE /\ lastRead.val.s = NoShipper
               /\ lastRead.val.err # NilError
               /\ IsCarrierNotFound(lastRead.val.err)

\* Get returned the second of two different shippers registered under one name
C7_Witness ==
    /\ Len(regLog) = 2
    /\ Name(regLog[1]) = Name(regLog[2]) /\ regLog[1] # regLog[2]
    /\ lastRead.op = "Get" /\ lastRead.arg = Name(regLog[2])
    /\ lastRead.val.s = regLog[2]

=============================================================================
